---- MODULE Spec2Model ----
(***************************************************************************)
(* A model of the gallery 3D viewer's interaction and placement core:      *)
(*   - the Interaction Controller   (src/src/interaction.js)               *)
(*   - the Drag-and-Place Controller and relativeScale (src/src/drag.js)   *)
(*   - the render loop that drives update()  (src/unnamed/part_002)        *)
(*   - the Socket Registry, collectSockets   (src/unnamed/part_000)        *)
(*                                                                         *)
(* Numbers are fixed point.  Lengths along the view axis and zoom amounts  *)
(* are in zoom units of 0.002 (so the default zoomSpeed is 1 unit per      *)
(* wheel delta unit, minZoom 2 is 1000 and maxZoom 12 is 6000).  Angles    *)
(* are in rotation units of 0.0004 rad (so the constant 0.002 of the move  *)
(* handler is 5 units), angular velocities in rotation units per second,   *)
(* axis multipliers in tenths, times in milliseconds.  Products and        *)
(* quotients are truncated toward zero.  Stored timestamps are kept as     *)
(* ages (time elapsed since they were taken), because the code only ever   *)
(* reads differences of timestamps.                                        *)
(***************************************************************************)
EXTENDS Integers, Sequences, FiniteSets, TLC

VARIABLES
  cfg,                \* interactionConfig after destructuring (interaction.js:33-47)
  enabled,            \* interaction.js:58
  isDragging,         \* interaction.js:59
  lastX, lastY,       \* interaction.js:60-61
  sinceMove,          \* age of lastMoveTime (interaction.js:62), ms, saturating
  velocityX,          \* interaction.js:63   yaw velocity
  velocityY,          \* interaction.js:64   pitch velocity
  coasting,           \* interaction.js:65
  zoomDistance,       \* interaction.js:66
  pinchStartDistance, \* interaction.js:67
  activePointers,     \* interaction.js:68   Map in insertion order: Seq of [id, x, y]
  rotation,           \* model.rotation of the primary object: [x, y]
  cameraZ,            \* camera.position.z
  listeners,          \* event types the controller still listens to (interaction.js:189-193)
  active,             \* drag.js:35   <<>> is null, <<session>> otherwise
  clones,             \* the drag clones in the scene: clone id -> [position, scale]
  rafQueue,           \* pending requestAnimationFrame(step) callbacks of animateReturn
  thrown,             \* some handler or callback has raised an uncaught fault
  socketRegistry,     \* part_000:4
  lastModel,          \* per objectId, the model given to the latest collectSockets
  loadCount,          \* models loaded so far (each load brings new nodes)
  loads,              \* the loadModel calls waiting at an await (part_000:36, 43)
  scaleArgs,          \* the arguments of a relativeScale call
  scaleResult,        \* what that call returned
  pressed,            \* the pointers that are down, each with the target of its press
  lastOp              \* the operation that produced this state

ctlVars  == <<cfg, enabled, isDragging, lastX, lastY, sinceMove, velocityX, velocityY,
              coasting, zoomDistance, pinchStartDistance, activePointers, rotation,
              cameraZ, listeners>>
dragVars == <<active, clones, rafQueue, thrown>>
sockVars == <<socketRegistry, lastModel, loadCount, loads>>
scaleVars == <<scaleArgs, scaleResult>>
vars == <<cfg, enabled, isDragging, lastX, lastY, sinceMove, velocityX, velocityY,
          coasting, zoomDistance, pinchStartDistance, activePointers, rotation,
          cameraZ, listeners, active, clones, rafQueue, thrown,
          socketRegistry, lastModel, loadCount, loads, scaleArgs, scaleResult, pressed,
          lastOp>>

---------------------------------------------------------------------------
(* Arithmetic helpers *)

Abs(a) == IF a < 0 THEN -a ELSE a
Sign(a) == IF a > 0 THEN 1 ELSE IF a < 0 THEN -1 ELSE 0
Max(a, b) == IF a >= b THEN a ELSE b
Min(a, b) == IF a <= b THEN a ELSE b
\* a / b for b > 0, truncated toward zero
Trunc(a, b) == IF a >= 0 THEN a \div b ELSE -((-a) \div b)

\* clamp without its upper bound: C6 rests on both bounds
clampFromBelow(value, min, max) == Max(min, value)

\* interaction.js:259-261
clamp(value, min, max) == Max(min, Min(max, value))

---------------------------------------------------------------------------
(* The Interaction Controller, src/src/interaction.js *)

\* interaction.js:33-47, the defaults of interactionConfig, in model units.
\* spinFriction is in thousandths; minAngularSpeed, idleSpinImpulse,
\* initialYawSpin and uprightThreshold in rotation units per second;
\* uprightStrength in units of 8 ln 2 per second (so that
\* exp(-strength * 0.125 s) is 1/2 per unit).
DefaultConfig ==
  [ spinAcceleration    |-> 2,
    spinFriction        |-> 300,     \* 0.3
    idleSpinImpulse     |-> 500,     \* 0.2 rad/s
    minZoom             |-> 1000,
    maxZoom             |-> 6000,
    zoomSpeed           |-> 1,
    pinchZoomMultiplier |-> 4,
    xAxisMultiplier     |-> 6,
    yAxisMultiplier     |-> 10,
    minAngularSpeed     |-> 0,
    initialYawSpin      |-> 0,
    uprightStrength     |-> 0,
    uprightThreshold    |-> 0 ]

\* The program state as one record, so that the listeners of one event can be
\* run one after the other as the browser runs them.
Cur ==
  [ cfg |-> cfg, enabled |-> enabled, isDragging |-> isDragging,
    lastX |-> lastX, lastY |-> lastY, sinceMove |-> sinceMove,
    velocityX |-> velocityX, velocityY |-> velocityY, coasting |-> coasting,
    zoomDistance |-> zoomDistance, pinchStartDistance |-> pinchStartDistance,
    activePointers |-> activePointers, rotation |-> rotation, cameraZ |-> cameraZ,
    listeners |-> listeners, active |-> active, clones |-> clones,
    rafQueue |-> rafQueue, thrown |-> thrown ]

\* Map.prototype.has / set / delete on activePointers (insertion ordered)
MapHas(m, id) == \E i \in 1..Len(m) : m[i].id = id
MapSet(m, id, x, y) ==
  IF MapHas(m, id)
    THEN [i \in 1..Len(m) |-> IF m[i].id = id THEN [id |-> id, x |-> x, y |-> y] ELSE m[i]]
    ELSE Append(m, [id |-> id, x |-> x, y |-> y])
MapDelete(m, id) == SelectSeq(m, LAMBDA e : e.id # id)

\* Math.hypot on integers: the integer square root (exact on the inputs used)
ISqrt(n) == CHOOSE r \in 0..n : r * r <= n /\ (r + 1) * (r + 1) > n

\* interaction.js:183-187
distance(p1, p2) ==
  LET dx == p1.x - p2.x
      dy == p1.y - p2.y
  IN  ISqrt(dx * dx + dy * dy)

\* interaction.js:76-98.  ev is [id, x, y]; event.timeStamp is "now".
ctlOnPointerDown(s, ev) ==
  IF ~s.enabled THEN s
  ELSE
    LET points == MapSet(s.activePointers, ev.id, ev.x, ev.y)
        s1 == [s EXCEPT !.activePointers = points]
    IN  IF Len(points) = 1
          THEN [s1 EXCEPT !.isDragging = TRUE, !.coasting = FALSE,
                          !.lastX = points[1].x, !.lastY = points[1].y,
                          !.sinceMove = 0, !.pinchStartDistance = 0]
        ELSE IF Len(points) = 2
          THEN [s1 EXCEPT !.isDragging = FALSE,
                          !.pinchStartDistance = distance(points[1], points[2])]
        ELSE s1

\* the pinch branch measuring every move from the distance recorded at the
\* second pointer-down and never recording a new one: C17 rests on each move
\* being measured from the previous sample
ctlPinchFromStart(s, points) ==
  LET pinchDist == distance(points[1], points[2])
      start     == IF s.pinchStartDistance = 0 THEN pinchDist ELSE s.pinchStartDistance
      distDelta == pinchDist - start
      zoomDelta == (-distDelta) * (s.cfg.zoomSpeed * s.cfg.pinchZoomMultiplier)
      zoom      == clamp(s.zoomDistance + zoomDelta, s.cfg.minZoom, s.cfg.maxZoom)
  IN  [s EXCEPT !.pinchStartDistance = start, !.zoomDistance = zoom, !.cameraZ = zoom]

\* interaction.js:111-123, the pinch branch of onPointerMove
ctlPinch(s, points) ==
  LET pinchDist == distance(points[1], points[2])
      start     == IF s.pinchStartDistance = 0 THEN pinchDist ELSE s.pinchStartDistance
      distDelta == pinchDist - start
      zoomDelta == (-distDelta) * (s.cfg.zoomSpeed * s.cfg.pinchZoomMultiplier)
      zoom      == clamp(s.zoomDistance + zoomDelta, s.cfg.minZoom, s.cfg.maxZoom)
  IN  [s EXCEPT !.pinchStartDistance = pinchDist, !.zoomDistance = zoom, !.cameraZ = zoom]

\* interaction.js:132-134: the rotation increments of a move by (dx, dy)
RotY(c, dx) == Trunc(dx * (c.spinAcceleration * 5) * c.yAxisMultiplier, 10)
RotX(c, dy) == Trunc(dy * (c.spinAcceleration * 5) * c.xAxisMultiplier, 10)

\* the single-pointer branch with the increments scaled by the time since
\* the previous sample (a frame of 125 ms as the unit): C8 rests on the
\* increments being independent of it
ctlRotateTimed(s, points, dtMs) ==
  LET dx   == points[1].x - s.lastX
      dy   == points[1].y - s.lastY
      safeDtMs == Max(dtMs, 1)
      rotY == Trunc(RotY(s.cfg, dx) * safeDtMs, 125)
      rotX == Trunc(RotX(s.cfg, dy) * safeDtMs, 125)
  IN  [s EXCEPT !.lastX = points[1].x, !.lastY = points[1].y,
                !.rotation = [x |-> s.rotation.x + rotX, y |-> s.rotation.y + rotY],
                !.velocityX = Trunc(rotY * 1000, safeDtMs),
                !.velocityY = Trunc(rotX * 1000, safeDtMs)]

\* interaction.js:125-146, the single-pointer branch of onPointerMove
ctlRotate(s, points, dtMs) ==
  LET dx   == points[1].x - s.lastX
      dy   == points[1].y - s.lastY
      rotY == RotY(s.cfg, dx)
      rotX == RotX(s.cfg, dy)
      \* safeDt = max(dtMs / 1000, 0.001) seconds
      safeDtMs == Max(dtMs, 1)
  IN  [s EXCEPT !.lastX = points[1].x, !.lastY = points[1].y,
                !.rotation = [x |-> s.rotation.x + rotX, y |-> s.rotation.y + rotY],
                !.velocityX = Trunc(rotY * 1000, safeDtMs),
                !.velocityY = Trunc(rotX * 1000, safeDtMs)]

\* onPointerMove without the return that ends the pinch branch, so that a
\* pinch move goes on to turn the model: C23 rests on that return
ctlOnPointerMoveTurning(s, ev) ==
  IF ~s.enabled THEN s
  ELSE IF ~MapHas(s.activePointers, ev.id) THEN s
  ELSE
    LET points == MapSet(s.activePointers, ev.id, ev.x, ev.y)
        dtMs   == Max(s.sinceMove, 1)
        s1     == [s EXCEPT !.activePointers = points, !.sinceMove = 0]
    IN  IF Len(points) = 2 THEN ctlRotate(ctlPinch(s1, points), points, dtMs)
        ELSE IF ~s1.isDragging \/ Len(points) = 0 THEN s1
        ELSE ctlRotate(s1, points, dtMs)

\* onPointerMove taking up a pointer that is not tracked
ctlOnPointerMoveUntracked(s, ev) ==
  IF ~s.enabled THEN s
  ELSE
    LET points == MapSet(s.activePointers, ev.id, ev.x, ev.y)
        dtMs   == Max(s.sinceMove, 1)
        s1     == [s EXCEPT !.activePointers = points, !.sinceMove = 0]
    IN  IF Len(points) = 2 THEN ctlPinch(s1, points)
        ELSE IF ~s1.isDragging \/ Len(points) = 0 THEN s1
        ELSE ctlRotate(s1, points, dtMs)

\* interaction.js:100-146
ctlOnPointerMove(s, ev) ==
  IF ~s.enabled THEN s
  ELSE IF ~MapHas(s.activePointers, ev.id) THEN s
  ELSE
    LET points == MapSet(s.activePointers, ev.id, ev.x, ev.y)
        dtMs   == Max(s.sinceMove, 1)
        s1     == [s EXCEPT !.activePointers = points, !.sinceMove = 0]
    IN  IF Len(points) = 2 THEN ctlPinch(s1, points)
        ELSE IF ~s1.isDragging \/ Len(points) = 0 THEN s1
        ELSE ctlRotate(s1, points, dtMs)

\* onPointerUp that coasts after every release, slow or fast: C16 rests on
\* the slow release stopping the object
ctlOnPointerUpCoasting(s, ev) ==
  IF ~s.enabled THEN s
  ELSE
    LET points == MapDelete(s.activePointers, ev.id)
    IN  IF Len(points) = 1
          THEN [s EXCEPT !.activePointers = points, !.isDragging = TRUE,
                         !.lastX = points[1].x, !.lastY = points[1].y,
                         !.pinchStartDistance = 0, !.coasting = TRUE]
          ELSE [s EXCEPT !.activePointers = points, !.isDragging = FALSE,
                         !.pinchStartDistance = 0, !.coasting = TRUE]

\* interaction.js:148-170.  The handler declares no parameter and reads the
\* global `event`, which in a browser is window.event, the event being
\* dispatched; ev stands for it.
ctlOnPointerUp(s, ev) ==
  IF ~s.enabled THEN s
  ELSE
    LET points == MapDelete(s.activePointers, ev.id)
        s1 == IF Len(points) = 1
                THEN [s EXCEPT !.activePointers = points, !.isDragging = TRUE,
                               !.lastX = points[1].x, !.lastY = points[1].y,
                               !.pinchStartDistance = 0]
                ELSE [s EXCEPT !.activePointers = points, !.isDragging = FALSE,
                               !.pinchStartDistance = 0]
        minSpeed == Max(s.cfg.minAngularSpeed, 0)
        speedMag == Max(Abs(s.velocityX), Abs(s.velocityY))
        coast    == speedMag >= minSpeed
    IN  IF coast THEN [s1 EXCEPT !.coasting = TRUE]
        ELSE [s1 EXCEPT !.coasting = FALSE, !.velocityX = 0, !.velocityY = 0]

\* interaction.js:172-181.  ev is [deltaY, pinchLike], pinchLike being
\* event.ctrlKey === true || event.deltaMode === 1.
ctlOnWheel(s, ev) ==
  IF ~s.enabled THEN s
  ELSE
    LET effectiveSpeed == IF ev.pinchLike
                            THEN s.cfg.zoomSpeed * s.cfg.pinchZoomMultiplier
                            ELSE s.cfg.zoomSpeed
        zoomDelta == ev.deltaY * effectiveSpeed
        zoom == clamp(s.zoomDistance + zoomDelta, s.cfg.minZoom, s.cfg.maxZoom)
    IN  [s EXCEPT !.zoomDistance = zoom, !.cameraZ = zoom]

\* disable() that also stops the spin: C11 rests on the velocity being kept
\* disable() that keeps the tracked pointers
ctlDisableTracking(s) == [s EXCEPT !.enabled = FALSE, !.isDragging = FALSE]

ctlDisableStopping(s) ==
  [s EXCEPT !.enabled = FALSE, !.isDragging = FALSE, !.activePointers = <<>>,
            !.velocityX = 0, !.velocityY = 0]

\* interaction.js:246-250
ctlDisable(s) == [s EXCEPT !.enabled = FALSE, !.isDragging = FALSE, !.activePointers = <<>>]

\* enable() that also resumes the coast: C12 rests on the flag being kept
ctlEnableCoasting(s) == [s EXCEPT !.enabled = TRUE, !.coasting = TRUE]

\* interaction.js:252-254
ctlEnable(s) == [s EXCEPT !.enabled = TRUE]

\* interaction.js:239-244: the pointercancel listener is not removed
ctlDispose(s) == [s EXCEPT !.listeners = s.listeners \ {"pointerdown", "pointermove", "pointerup", "wheel"}]

\* Math.pow(base, 0.125) in thousandths, for base = 1 - frictionClamped in
\* thousandths: the damping of one eighth of a second.  Tabulated on the
\* friction values the configurations use (0, 0.3, 1 - 2^-8 and 1).
PowEighth(base) ==
  CASE base = 1000 -> 1000
    [] base = 700  -> 956
    [] base = 4    -> 500
    [] base = 0    -> 0

\* b to the k; Math.pow(0, 0) is 1
RECURSIVE IntPow(_, _)
IntPow(b, k) == IF k = 0 THEN 1 ELSE b * IntPow(b, k - 1)

\* update with the damping left out: C7 rests on the damping
DampedNever(value, base, deltaMs) == value

\* value * Math.pow(base, deltaMs / 1000), deltaMs a multiple of 125
Damped(value, base, deltaMs) ==
  LET k == deltaMs \div 125
  IN  Trunc(value * IntPow(PowEighth(base), k), IntPow(1000, k))

\* 2 pi in rotation units
FullTurn == 15708

\* interaction.js:263-266
normalizeAngle(angle) ==
  LET m == angle % FullTurn
  IN  IF m > FullTurn \div 2 THEN m - FullTurn ELSE m

\* interaction.js:210-222, the self-righting step of update.
\* Math.exp(-uprightStrength * delta) is 2^-(strength * k) for k eighths of
\* a second; the correction -angleX * uprightStrength * delta is
\* -angleX * strength * k * ln 2, with ln 2 taken as 693/1000.  The cut-off
\* |velocityY| < 1e-5 -> 0 lies below one velocity unit and is the truncation.
ctlUpright(s, deltaMs) ==
  LET k == deltaMs \div 125
      damped == Trunc(s.velocityY, IntPow(2, s.cfg.uprightStrength * k))
      angleX == normalizeAngle(s.rotation.x)
      correction == Trunc((-angleX) * s.cfg.uprightStrength * k * 693, 1000)
  IN  [s EXCEPT !.velocityY = damped + correction]

\* interaction.js:197-237.  deltaMs is delta in milliseconds.
update(s, deltaMs) ==
  LET s1 == [s EXCEPT !.rotation =
                 [x |-> s.rotation.x + Trunc(s.velocityY * deltaMs, 1000),
                  y |-> s.rotation.y + Trunc(s.velocityX * deltaMs, 1000)]]
      frictionClamped == clamp(s.cfg.spinFriction, 0, 1000)
      s2 == [s1 EXCEPT !.velocityX = Damped(s.velocityX, 1000 - frictionClamped, deltaMs),
                       !.velocityY = Damped(s.velocityY, 1000 - frictionClamped, deltaMs)]
      speedMag == Max(Abs(s2.velocityX), Abs(s2.velocityY))
      minSpeed == Max(s.cfg.minAngularSpeed, 0)
      uprightKickIn == Max(s.cfg.uprightThreshold, minSpeed)
      uprightActive == s.coasting /\ s.cfg.uprightStrength > 0 /\ speedMag <= uprightKickIn
      s3 == IF uprightActive THEN ctlUpright(s2, deltaMs) ELSE s2
      \* interaction.js:224-230
      s4 == IF s.coasting /\ minSpeed > 0
              THEN [s3 EXCEPT
                     !.velocityX = IF Abs(s3.velocityX) < minSpeed
                                     THEN Sign(s3.velocityX) * minSpeed ELSE s3.velocityX,
                     !.velocityY = IF ~uprightActive /\ Abs(s3.velocityY) < minSpeed
                                     THEN Sign(s3.velocityY) * minSpeed ELSE s3.velocityY]
              ELSE s3
      \* interaction.js:232-236
      s5 == IF ~s.coasting /\ ~s.isDragging /\ minSpeed > 0
              THEN [s4 EXCEPT
                     !.velocityX = IF Abs(s4.velocityX) < minSpeed THEN 0 ELSE s4.velocityX,
                     !.velocityY = IF Abs(s4.velocityY) < minSpeed THEN 0 ELSE s4.velocityY]
              ELSE s4
  IN  s5

---------------------------------------------------------------------------
(* The Scale/Anchor Resolver, src/src/drag.js:177-198 *)

\* JavaScript values that reach relativeScale: finite numbers as reduced
\* fractions n/d, and the values that are not finite numbers.
RECURSIVE Gcd(_, _)
Gcd(a, b) == IF b = 0 THEN a ELSE Gcd(b, a % b)
Frac(n, d) ==
  LET g == Gcd(Abs(n), Abs(d))
      sg == IF d < 0 THEN -1 ELSE 1
  IN  [k |-> "num", n |-> (sg * n) \div g, d |-> (sg * d) \div g]
Num(n) == [k |-> "num", n |-> n, d |-> 1]
NaN == [k |-> "NaN", n |-> 0, d |-> 1]
Infinity == [k |-> "Infinity", n |-> 1, d |-> 0]
Undefined == [k |-> "undefined", n |-> 0, d |-> 1]
Null == [k |-> "null", n |-> 0, d |-> 1]
Str == [k |-> "string", n |-> 0, d |-> 1]
\* no call has returned yet
NotCalled == [k |-> "none", n |-> 0, d |-> 1]

\* Number.isFinite: false for every value that is not a number
IsFinite(v) == v.k = "num"
\* v > 0 on JavaScript values (false for NaN and undefined)
IsPositive(v) == (v.k = "num" /\ v.n > 0) \/ (v.k = "Infinity" /\ v.n > 0)
\* the largest finite number, standing for Number.MAX_VALUE
MaxValue == 1000000
NegInfinity == [k |-> "Infinity", n |-> -1, d |-> 0]
\* a result beyond the largest finite number is an infinity
Overflow(v) ==
  IF v.k = "num" /\ Abs(v.n) > MaxValue * v.d
    THEN (IF v.n > 0 THEN Infinity ELSE NegInfinity)
    ELSE v
\* a / b on finite numbers, b # 0
FracDiv(a, b) == Overflow(Frac(a.n * b.d, a.d * b.n))
\* a * b on numbers: an infinity times zero is NaN
FracMul(a, b) ==
  IF a.k = "num" /\ b.k = "num" THEN Overflow(Frac(a.n * b.n, a.d * b.d))
  ELSE IF a.k = "NaN" \/ b.k = "NaN" \/ a.n = 0 \/ b.n = 0 THEN NaN
  ELSE IF (a.n > 0) = (b.n > 0) THEN Infinity ELSE NegInfinity

\* relativeScale without the test of the final scale: C21 rests on it
relativeScaleUntested(entry, baseSize, baseRadius, accessoryRadius) ==
  IF ~entry.present \/ entry.objClass # "accessory" THEN Undefined
  ELSE
    LET base == IF IsFinite(baseSize) /\ IsPositive(baseSize) THEN baseSize ELSE Num(1)
        size == IF IsFinite(entry.size) THEN entry.size ELSE Null
    IN  IF size = Null THEN Undefined
        ELSE
          LET relative == FracDiv(size, base)
              radiusRatio ==
                IF IsFinite(baseRadius) /\ IsFinite(accessoryRadius) /\ IsPositive(accessoryRadius)
                  THEN FracDiv(baseRadius, accessoryRadius)
                  ELSE Num(1)
          IN  FracMul(relative, radiusRatio)

\* relativeScale without the test of the declared size: C9 rests on it
relativeScaleAnySize(entry, baseSize, baseRadius, accessoryRadius) ==
  IF ~entry.present \/ entry.objClass # "accessory" THEN Undefined
  ELSE IF IsFinite(entry.size) /\ IsPositive(entry.size) THEN entry.size
  ELSE Num(1)

\* drag.js:177-189.  entry is [present, objClass, size]; present is FALSE
\* for a null or undefined entry.
relativeScale(entry, baseSize, baseRadius, accessoryRadius) ==
  IF ~entry.present \/ entry.objClass # "accessory" THEN Undefined
  ELSE
    LET base == IF IsFinite(baseSize) /\ IsPositive(baseSize) THEN baseSize ELSE Num(1)
        size == IF IsFinite(entry.size) THEN entry.size ELSE Null
    IN  IF size = Null THEN Undefined
        ELSE
          LET relative == FracDiv(size, base)
              radiusRatio ==
                IF IsFinite(baseRadius) /\ IsFinite(accessoryRadius) /\ IsPositive(accessoryRadius)
                  THEN FracDiv(baseRadius, accessoryRadius)
                  ELSE Num(1)
              finalScale == FracMul(relative, radiusRatio)
          IN  IF IsFinite(finalScale) /\ IsPositive(finalScale) THEN finalScale ELSE Undefined

\* part_002:327-339, the entry point's copy of the resolver
scaleForEntry(entry, baseSize, baseRadius, accessoryRadius) ==
  IF ~entry.present \/ entry.objClass # "accessory" THEN Undefined
  ELSE
    LET base == IF IsFinite(baseSize) /\ IsPositive(baseSize) THEN baseSize ELSE Num(1)
        size == IF IsFinite(entry.size) THEN entry.size ELSE Null
    IN  IF size = Null THEN Undefined
        ELSE
          LET relative == FracDiv(size, base)
              radiusRatio ==
                IF IsFinite(baseRadius) /\ IsFinite(accessoryRadius) /\ IsPositive(accessoryRadius)
                  THEN FracDiv(baseRadius, accessoryRadius)
                  ELSE Num(1)
              finalScale == FracMul(relative, radiusRatio)
          IN  IF IsFinite(finalScale) /\ IsPositive(finalScale) THEN finalScale ELSE Undefined

---------------------------------------------------------------------------
(* The Drag-and-Place Controller, src/src/drag.js:18-175 *)

\* renderer.domElement.getBoundingClientRect(), in pixels
CanvasRect == [left |-> 0, top |-> 0, width |-> 120, height |-> 160]

\* options.accessories as accessoryMap (drag.js:32): the entries the tray
\* can drag, by name.
accessoryMap ==
  [ hat |-> [present |-> TRUE, name |-> "hat", objClass |-> "accessory", size |-> Num(2)],
    cap |-> [present |-> TRUE, name |-> "cap", objClass |-> "accessory", size |-> Num(1)] ]

\* The thumbnails of the tray ([data-object-id] elements): "orb" carries an
\* id that accessoryMap does not know.
Thumbnails == {"hat", "cap", "orb"}

\* The centre of a thumbnail's bounding rectangle (drag.js:159-161)
ThumbCenter(el) ==
  CASE el = "hat" -> [x |-> 10, y |-> 20]
    [] el = "cap" -> [x |-> 10, y |-> 60]
    [] el = "orb" -> [x |-> 10, y |-> 100]

\* getModelMeta(objectId) || getModelRegistry().find(...) (drag.js:53): the
\* loader's record of an object, with its model once it is loaded and its
\* bounding radius.  "cap" is an accessory whose model is not loaded.
getModelMeta(objectId) ==
  CASE objectId = "hat" -> [found |-> TRUE, model |-> TRUE, radius |-> Num(250)]
    [] objectId = "cap" -> [found |-> TRUE, model |-> FALSE, radius |-> Undefined]
    [] OTHER            -> [found |-> FALSE, model |-> FALSE, radius |-> Undefined]

\* options.baseSize, options.baseRadius (drag.js:25-26) and the bounding
\* sphere of options.baseModel (drag.js:191-198), the radius in zoom units
baseSize == Num(1)
baseRadius == Num(500)
baseAnchor == [present |-> TRUE, centerZ |-> 0, radius |-> 500]

\* drag.js:101-105 and 163-166: normalised device coordinates of a client
\* point, x in units of 1/width and y in units of 1/height
Ndc(p) ==
  [x |-> 2 * (p.x - CanvasRect.left) - CanvasRect.width,
   y |-> -(2 * (p.y - CanvasRect.top)) + CanvasRect.height]

\* drag.js:140-156.  The camera looks down the z axis, so a plane normal to
\* its direction is given by its z coordinate.
makePlane(camZ, anchor) ==
  IF anchor.present
    THEN LET distanceToBase == Max(camZ - anchor.centerZ, 50)
             epsilon == Max(anchor.radius \div 50, 25)
             targetDistance == Max(distanceToBase - anchor.radius + epsilon, 25)
         IN  camZ - targetDistance
    ELSE camZ - 500

\* raycaster.setFromCamera(ndc, camera) followed by ray.intersectPlane
\* (drag.js:109-119 and 168-173).  The ray through ndc meets the plane at
\* ndc times the plane's distance ahead of the camera; when the plane is
\* behind the camera there is no hit and the point two units along the ray
\* is used (its length along the axis is taken for its length along the ray).
RayPoint(camZ, plane, ndc) ==
  LET depth == camZ - plane
  IN  IF depth >= 0
        THEN [x |-> ndc.x * depth, y |-> ndc.y * depth, z |-> plane]
        ELSE [x |-> ndc.x * 1000, y |-> ndc.y * 1000, z |-> camZ - 1000]

\* drag.js:101-120: updatePointerFromEvent(event); updateModelPosition()
updateModelPosition(s, ev) ==
  IF s.active = <<>> THEN s
  ELSE [s EXCEPT !.clones[s.active[1].model].position =
                    RayPoint(s.cameraZ, s.active[1].plane, Ndc(ev))]


\* drag.js:59-80, onPointerDown once the registry entry has a model
dragStart(s, ev, accessory, registryEntry, clone) ==
  LET scale == relativeScale(accessory, baseSize, baseRadius, registryEntry.radius)
      session == [model |-> clone, plane |-> makePlane(s.cameraZ, baseAnchor),
                  thumbEl |-> ev.target, objectId |-> ev.target,
                  scale |-> scale, returning |-> FALSE]
      \* scene.add(clone); clone.scale.setScalar(active.scale) when defined
      s1 == [s EXCEPT !.clones = [c \in DOMAIN s.clones \cup {clone} |->
                                    IF c = clone
                                      THEN [position |-> [x |-> 0, y |-> 0, z |-> 0],
                                            scale |-> scale, objectId |-> ev.target]
                                      ELSE s.clones[c]],
                      !.active = <<session>>]
  IN  updateModelPosition(s1, ev)

\* onPointerDown leaving the controller disabled when the model of the
\* accessory is not loaded
dragOnPointerDownDisabling(s, ev, clone) ==
  IF ev.target = "none" THEN s
  ELSE IF ev.target \notin DOMAIN accessoryMap THEN s
  ELSE
    LET accessory == accessoryMap[ev.target]
        s1 == ctlDisable(s)
        registryEntry == getModelMeta(ev.target)
    IN  IF ~registryEntry.model THEN s1
        ELSE dragStart(s1, ev, accessory, registryEntry, clone)

\* drag.js:43-81.  ev is [target, id, x, y]; target is the data-object-id of
\* the closest thumbnail, or "none" when the press is on no thumbnail.
dragOnPointerDown(s, ev, clone) ==
  IF ev.target = "none" THEN s
  ELSE IF ev.target \notin DOMAIN accessoryMap THEN s
  ELSE
    LET accessory == accessoryMap[ev.target]
        s1 == ctlDisable(s)
        registryEntry == getModelMeta(ev.target)
    IN  IF ~registryEntry.model THEN ctlEnable(s1)
        ELSE dragStart(s1, ev, accessory, registryEntry, clone)

\* the move handler of the drag turning the primary object as well as
\* moving the clone: C19 rests on the drag handlers writing the clone only
dragOnPointerMoveTurning(s, ev) ==
  IF s.active = <<>> \/ s.active[1].returning THEN s
  ELSE [updateModelPosition(s, ev) EXCEPT !.rotation.y = @ + 5]

\* the move handler of the drag without its test of the returning flag
dragOnPointerMoveReturning(s, ev) ==
  IF s.active = <<>> THEN s ELSE updateModelPosition(s, ev)

\* drag.js:83-87
dragOnPointerMove(s, ev) ==
  IF s.active = <<>> \/ s.active[1].returning THEN s
  ELSE updateModelPosition(s, ev)

\* drag.js:122-125 and 137: animateReturn up to its first requestAnimationFrame.
\* elapsed is the age of `start`.
animateReturn(s, target) ==
  [s EXCEPT !.rafQueue = Append(s.rafQueue,
       [elapsed |-> 0, from |-> s.clones[s.active[1].model].position, target |-> target])]

\* drag.js:89-99
dragOnPointerUp(s, ev) ==
  IF s.active = <<>> THEN s
  ELSE
    LET s1 == [s EXCEPT !.active[1].returning = TRUE]
        targetPosition == RayPoint(s.cameraZ, s.active[1].plane,
                                   Ndc(ThumbCenter(s.active[1].thumbEl)))
    IN  animateReturn(s1, targetPosition)

\* drag.js:123
duration == 250

\* Vector3.lerpVectors(from, target, t) for t = elapsed / duration
lerpVectors(from, target, elapsed) ==
  [x |-> from.x + Trunc((target.x - from.x) * elapsed, duration),
   y |-> from.y + Trunc((target.y - from.y) * elapsed, duration),
   z |-> from.z + Trunc((target.z - from.z) * elapsed, duration)]

\* drag.js:94-98, the completion callback
onComplete(s) ==
  ctlEnable([s EXCEPT !.clones = [c \in DOMAIN s.clones \ {s.active[1].model} |-> s.clones[c]],
                      !.active = <<>>])

\* drag.js:127-135, one call of step for the animation anim.  The result
\* says whether step asked for another frame.  With active null the read
\* of active.model throws a TypeError and the callback ends there.
step(s, anim) ==
  IF s.active = <<>> THEN [s |-> [s EXCEPT !.thrown = TRUE], again |-> FALSE]
  ELSE
    LET e == Min(anim.elapsed, duration)
        s1 == [s EXCEPT !.clones[s.active[1].model].position =
                           lerpVectors(anim.from, anim.target, e)]
    IN  IF e < duration THEN [s |-> s1, again |-> TRUE]
        ELSE [s |-> onComplete(s1), again |-> FALSE]

\* The browser runs the frame's callbacks in the order they were requested;
\* a callback requested during the frame runs in the next one.
RECURSIVE RunSteps(_, _, _)
RunSteps(s, pending, kept) ==
  IF pending = <<>> THEN [s EXCEPT !.rafQueue = kept]
  ELSE CHOOSE res \in
         { RunSteps(r.s, Tail(pending),
                    IF r.again THEN Append(kept, Head(pending)) ELSE kept) :
             r \in {step(s, Head(pending))} } : TRUE

---------------------------------------------------------------------------
(* The Socket Registry, src/unnamed/part_000:4 and 114-137 *)

\* A node name is a JavaScript value: a string (its characters), or a value
\* that is not a string.
StrName(chars) == [k |-> "string", chars |-> chars]
NoName == [k |-> "undefined", chars |-> <<>>]
NumName == [k |-> "number", chars |-> <<>>]

\* the labels models are loaded under (part_000:34)
ObjectIds == {"base", "hat", "cap"}

\* 'socket_' (part_000:125)
socketPrefix == <<"s", "o", "c", "k", "e", "t", "_">>

\* String.prototype.startsWith
startsWith(str, prefix) ==
  Len(str) >= Len(prefix) /\ SubSeq(str, 1, Len(prefix)) = prefix

\* collectSockets without the removal of the stale records: C10 rests on it
spliceNothing(registry, i, objectId) == registry

\* part_000:116-120: the loop from the last index down that splices out the
\* records of objectId
RECURSIVE spliceStale(_, _, _)
spliceStale(registry, i, objectId) ==
  IF i < 1 THEN registry
  ELSE spliceStale(IF registry[i].objectId = objectId
                     THEN SubSeq(registry, 1, i - 1) \o SubSeq(registry, i + 1, Len(registry))
                     ELSE registry,
                   i - 1, objectId)

\* a callback that keeps every node with a non-empty string for a name
isNamedNode(node) == node.name.k = "string" /\ node.name.chars # <<>>

\* part_000:124-125: the nodes that traverse's callback keeps
isSocketNode(node) ==
  /\ node.name.k = "string" /\ node.name.chars # <<>>
  /\ startsWith(node.name.chars, socketPrefix)

\* collectSockets adding the sockets of the model to whatever is there
collectSocketsAppending(registry, model, objectId) ==
  LET found == SelectSeq(model, isSocketNode)
  IN  registry \o [i \in 1..Len(found) |->
                     [objectId |-> objectId, socketId |-> found[i].name.chars,
                      threeJsNode |-> found[i].node]]

\* part_000:114-137.  model is the sequence of the model's nodes in the
\* order traverse visits them, each [node, name].
collectSockets(registry, model, objectId) ==
  LET kept == spliceStale(registry, Len(registry), objectId)
      found == SelectSeq(model, isSocketNode)
      sockets == [i \in 1..Len(found) |->
                    [objectId |-> objectId, socketId |-> found[i].name.chars,
                     threeJsNode |-> found[i].node]]
  IN  kept \o sockets

---------------------------------------------------------------------------
(* Bounds of the model *)

\* The time between two animation frames, ms.  Events that arrive between
\* the same two frames carry the same timeStamp.
FrameDeltas == {125}
\* an age stops growing after MaxGapSteps frames
MaxGapSteps == 1
\* clones that can be in the scene at once
MaxClones == 2
\* return animations that can be pending at once
MaxAnims == 2
\* |model.rotation.x|, |model.rotation.y| stay within MaxRot times 600 units
MaxRot == 2

CloneIds == {100 + i : i \in 1..MaxClones}
FreeClones == CloneIds \ DOMAIN clones
\* the clone that clone(true) makes: a new object
NewClone ==
  IF FreeClones = {} THEN 0
  ELSE CHOOSE c \in FreeClones : \A d \in FreeClones : c <= d

InBounds(s) ==
  /\ Abs(s.rotation.x) <= MaxRot * 600
  /\ Abs(s.rotation.y) <= MaxRot * 600
  /\ Len(s.rafQueue) <= MaxAnims

---------------------------------------------------------------------------
(* Events.  Each action is one event of the browser with every listener it
   reaches, in the order the browser calls them: a listener on the tray
   before the listeners on window, and on window the Interaction
   Controller's (attached first, part_002:199-216) before the drag
   controller's. *)

\* The state after the listeners have run becomes the next state.  (t is s,
\* evaluated once.)
Commit(s, op) ==
  \E t \in {s} :
    /\ InBounds(t)
    /\ cfg' = t.cfg /\ enabled' = t.enabled /\ isDragging' = t.isDragging
    /\ lastX' = t.lastX /\ lastY' = t.lastY /\ sinceMove' = t.sinceMove
    /\ velocityX' = t.velocityX /\ velocityY' = t.velocityY /\ coasting' = t.coasting
    /\ zoomDistance' = t.zoomDistance /\ pinchStartDistance' = t.pinchStartDistance
    /\ activePointers' = t.activePointers /\ rotation' = t.rotation
    /\ cameraZ' = t.cameraZ /\ listeners' = t.listeners /\ active' = t.active
    /\ clones' = t.clones /\ rafQueue' = t.rafQueue /\ thrown' = t.thrown
    /\ lastOp' = op
    /\ UNCHANGED <<sockVars, scaleVars>>

Listens(s, type) == type \in s.listeners

\* the ids of the pointers that are down
PressedIds == {q.id : q \in pressed}
Release(id) == {q \in pressed : q.id # id}

\* The kind of a thumbnail, for lastOp
TrayOp(target) ==
  IF target \notin DOMAIN accessoryMap THEN "trayDownUnknown"
  ELSE IF getModelMeta(target).model THEN "trayDownLoaded"
  ELSE "trayDownUnloaded"

\* pointerdown on the thumbnail `target` of the tray
TrayPointerDown(target, id) ==
  LET ev == [target |-> target, id |-> id,
             x |-> ThumbCenter(target).x, y |-> ThumbCenter(target).y]
      s1 == dragOnPointerDown(Cur, ev, NewClone)
      s2 == IF Listens(s1, "pointerdown") THEN ctlOnPointerDown(s1, ev) ELSE s1
  IN  /\ id \notin PressedIds
      /\ TrayOp(target) = "trayDownLoaded" => FreeClones # {}
      /\ pressed' = pressed \cup {[id |-> id, target |-> target]}
      /\ Commit(s2, TrayOp(target))

\* pointerdown anywhere else
CanvasPointerDown(id, p) ==
  LET ev == [target |-> "none", id |-> id, x |-> p.x, y |-> p.y]
      s1 == IF Listens(Cur, "pointerdown") THEN ctlOnPointerDown(Cur, ev) ELSE Cur
  IN  /\ id \notin PressedIds
      /\ pressed' = pressed \cup {[id |-> id, target |-> "none"]}
      /\ Commit(s1, "pointerDown")

PointerMove(id, p) ==
  LET ev == [target |-> "none", id |-> id, x |-> p.x, y |-> p.y]
      s1 == IF Listens(Cur, "pointermove") THEN ctlOnPointerMove(Cur, ev) ELSE Cur
      s2 == dragOnPointerMove(s1, ev)
  IN  /\ UNCHANGED pressed
      /\ Commit(s2, "pointerMove")

PointerUp(id) ==
  LET ev == [target |-> "none", id |-> id]
      s1 == IF Listens(Cur, "pointerup") THEN ctlOnPointerUp(Cur, ev) ELSE Cur
      s2 == dragOnPointerUp(s1, ev)
  IN  /\ id \in PressedIds
      /\ pressed' = Release(id)
      /\ Commit(s2, "pointerUp")

PointerCancel(id) ==
  LET ev == [target |-> "none", id |-> id]
      s1 == IF Listens(Cur, "pointercancel") THEN ctlOnPointerUp(Cur, ev) ELSE Cur
      s2 == dragOnPointerUp(s1, ev)
  IN  /\ id \in PressedIds
      /\ pressed' = Release(id)
      /\ Commit(s2, "pointerCancel")

Wheel(deltaY, pinchLike) ==
  LET ev == [deltaY |-> deltaY, pinchLike |-> pinchLike]
      s1 == IF Listens(Cur, "wheel") THEN ctlOnWheel(Cur, ev) ELSE Cur
  IN  /\ UNCHANGED pressed
      /\ Commit(s1, "wheel")

\* Time passes: every stored timestamp ages by dt.
Elapse(s, dt) ==
  [s EXCEPT !.sinceMove = Min(s.sinceMove + dt, MaxGapSteps * 125),
            !.rafQueue = [i \in 1..Len(s.rafQueue) |->
                            [s.rafQueue[i] EXCEPT !.elapsed = Min(@ + dt, duration)]]]

\* One animation frame, dt after the previous one: the render loop's
\* callback (part_002:219-226) with delta = dt, then the pending step
\* callbacks of the return animations.
AnimationFrame(dt) ==
  \E s1 \in {update(Elapse(Cur, dt), dt)} :
    \E s2 \in {RunSteps(s1, s1.rafQueue, <<>>)} :
      /\ UNCHANGED pressed
      /\ Commit(s2, "frame")

\* interaction.dispose()
Dispose ==
  /\ "pointerdown" \in listeners
  /\ UNCHANGED pressed
  /\ Commit(ctlDispose(Cur), "dispose")

\* interaction.disable(), called by a client of the controller
Disable ==
  /\ UNCHANGED pressed
  /\ Commit(ctlDisable(Cur), "disable")

\* interaction.enable(), called by a client of the controller
Enable ==
  /\ UNCHANGED pressed
  /\ Commit(ctlEnable(Cur), "enable")

\* The listeners a pointerup reaches, in order (interaction.js:191, drag.js:40)
OnPointerUpEvent(s, id) ==
  LET ev == [target |-> "none", id |-> id]
      s1 == IF Listens(s, "pointerup") THEN ctlOnPointerUp(s, ev) ELSE s
  IN  dragOnPointerUp(s1, ev)

\* The listeners a pointercancel reaches, in order (interaction.js:192, drag.js:41)
OnPointerCancelEvent(s, id) ==
  LET ev == [target |-> "none", id |-> id]
      s1 == IF Listens(s, "pointercancel") THEN ctlOnPointerUp(s, ev) ELSE s
  IN  dragOnPointerUp(s1, ev)

---------------------------------------------------------------------------
(* The program as wired by the entry point, part_002:173-227 *)

\* interaction.js:57-68 and 189-193, drag.js:35: the state after construction,
\* but for the angular velocity
InitState(c, camZ, vx, vy) ==
  /\ cfg = c
  /\ enabled = TRUE /\ isDragging = FALSE
  /\ lastX = 0 /\ lastY = 0
  /\ sinceMove = MaxGapSteps * 125
  /\ velocityX = vx
  /\ velocityY = vy
  /\ coasting = TRUE
  /\ zoomDistance = camZ
  /\ pinchStartDistance = 0
  /\ activePointers = <<>>
  /\ rotation = [x |-> 0, y |-> 0]
  /\ cameraZ = camZ
  /\ listeners = {"pointerdown", "pointermove", "pointerup", "pointercancel", "wheel"}
  /\ active = <<>>
  /\ clones = <<>>
  /\ rafQueue = <<>>
  /\ thrown = FALSE
  /\ pressed = {}
  /\ lastOp = "init"

\* interaction.js:70-73: the idle impulse and the initial yaw spin
InitProgram(c, camZ) == InitState(c, camZ, c.idleSpinImpulse + c.initialYawSpin, 0)

\* part_000:4
InitSockets ==
  /\ socketRegistry = <<>>
  /\ lastModel = [o \in ObjectIds |-> <<>>]
  /\ loadCount = 0
  /\ loads = {}

InitScale == scaleArgs = <<>> /\ scaleResult = NotCalled

progVars == <<ctlVars, dragVars, pressed>>

(* Spec: the placement gestures on the wired program.  The configuration
   turns the spin off (spinAcceleration 0, no idle impulse), so the primary
   object stays at rest and no frame is ever out of the model's bounds. *)
PointerIds == {1}
Points == {[x |-> 70, y |-> 20], [x |-> 70, y |-> 100]}
WheelDeltas == {-10000, 10000}
SpecConfig == [DefaultConfig EXCEPT !.spinAcceleration = 0, !.idleSpinImpulse = 0]

Init ==
  /\ InitProgram(SpecConfig, 2500)
  /\ InitSockets
  /\ InitScale

Next ==
  \/ \E target \in Thumbnails, id \in PointerIds : TrayPointerDown(target, id)
  \/ \E id \in PointerIds, p \in Points : CanvasPointerDown(id, p)
  \/ \E id \in PointerIds, p \in Points : PointerMove(id, p)
  \/ \E id \in PointerIds : PointerUp(id)
  \/ \E id \in PointerIds : PointerCancel(id)
  \/ \E deltaY \in WheelDeltas : Wheel(deltaY, FALSE)
  \/ \E dt \in FrameDeltas : AnimationFrame(dt)

Spec == Init /\ [][Next]_vars

\* The same program under weak fairness of the animation frames: the browser
\* keeps delivering frames, with increasing time.
FairSpec == Spec /\ WF_vars(\E dt \in FrameDeltas : AnimationFrame(dt))

---------------------------------------------------------------------------
(* SpecCtl: the Interaction Controller with the default spin, two pointers,
   the wheel, and presses on the thumbnail of the accessory that is not
   loaded.  The friction is 1, so that a velocity lasts one frame. *)

CtlPointerIds == {1, 2}
CtlDownPoints == {[x |-> 70, y |-> 140]}
CtlPoints == {[x |-> 10, y |-> 60], [x |-> 70, y |-> 140]}
\* camera.position.z at construction: beyond maxZoom
StartZooms == {7000}
CtlConfig == [DefaultConfig EXCEPT !.spinFriction = 1000, !.idleSpinImpulse = 0]

InitCtl ==
  /\ \E camZ \in StartZooms : InitProgram(CtlConfig, camZ)
  /\ InitSockets
  /\ InitScale

NextCtl ==
  \/ \E id \in CtlPointerIds : TrayPointerDown("cap", id)
  \/ \E id \in CtlPointerIds, p \in CtlDownPoints : CanvasPointerDown(id, p)
  \/ \E id \in CtlPointerIds, p \in CtlPoints : PointerMove(id, p)
  \/ \E id \in CtlPointerIds : PointerUp(id)
  \/ \E id \in CtlPointerIds : PointerCancel(id)
  \/ \E deltaY \in WheelDeltas, pinchLike \in BOOLEAN : Wheel(deltaY, pinchLike)
  \/ \E dt \in FrameDeltas : AnimationFrame(dt)

SpecCtl == InitCtl /\ [][NextCtl]_vars

---------------------------------------------------------------------------
(* SpecZoom: the wired program with the spin off, two pointers, the wheel
   and the pinch, started with the camera nearer than minZoom or farther
   than maxZoom, and presses on the thumbnail of the loaded accessory, which
   disable the Interaction Controller for the time of the session.  The
   pinch multiplier is 60, so that one pinch between the two points crosses
   the whole range [minZoom, maxZoom]. *)

\* camera.position.z at construction: below minZoom, beyond maxZoom
ZoomStarts == {500, 7000}
ZoomConfig ==
  [DefaultConfig EXCEPT !.spinAcceleration = 0, !.idleSpinImpulse = 0,
                        !.pinchZoomMultiplier = 60]

InitZoom ==
  /\ \E camZ \in ZoomStarts : InitProgram(ZoomConfig, camZ)
  /\ InitSockets
  /\ InitScale

NextZoom ==
  \/ \E id \in CtlPointerIds : TrayPointerDown("hat", id)
  \/ \E id \in CtlPointerIds, p \in CtlDownPoints : CanvasPointerDown(id, p)
  \/ \E id \in CtlPointerIds, p \in CtlPoints : PointerMove(id, p)
  \/ \E id \in CtlPointerIds : PointerUp(id)
  \/ \E id \in CtlPointerIds : PointerCancel(id)
  \/ \E deltaY \in WheelDeltas, pinchLike \in BOOLEAN : Wheel(deltaY, pinchLike)
  \/ \E dt \in FrameDeltas : AnimationFrame(dt)

SpecZoom == InitZoom /\ [][NextZoom]_vars

---------------------------------------------------------------------------
(* SpecApi: the Interaction Controller driven by a client of the interface
   it returns (update, dispose, enable, disable) and by two pointers, with
   the default spin.  The friction is 1, so that a velocity lasts one
   frame. *)

ApiConfig == [DefaultConfig EXCEPT !.spinFriction = 1000, !.idleSpinImpulse = 0]

InitApi ==
  /\ InitProgram(ApiConfig, 2500)
  /\ InitSockets
  /\ InitScale

NextApi ==
  \/ \E id \in CtlPointerIds, p \in CtlDownPoints : CanvasPointerDown(id, p)
  \/ \E id \in CtlPointerIds, p \in CtlPoints : PointerMove(id, p)
  \/ \E id \in CtlPointerIds : PointerUp(id)
  \/ \E id \in CtlPointerIds : PointerCancel(id)
  \/ \E dt \in FrameDeltas : AnimationFrame(dt)
  \/ Disable
  \/ Enable
  \/ Dispose

SpecApi == InitApi /\ [][NextApi]_vars

---------------------------------------------------------------------------
(* SpecFloor: the Interaction Controller with a minimum angular speed of
   4000 units (1.6 rad/s), below the 7200 units per second of a move over 60
   pixels in one frame at spinAcceleration 3, and the friction 1 - 2^-8,
   which halves a velocity in each frame.  Two pointers move along one
   horizontal line, and the zoom is switched off (zoomSpeed 0). *)

FloorDownPoints == {[x |-> 70, y |-> 140]}
FloorPoints == {[x |-> 10, y |-> 140], [x |-> 70, y |-> 140]}
FloorConfig ==
  [DefaultConfig EXCEPT !.spinFriction = 996, !.idleSpinImpulse = 0,
                        !.minAngularSpeed = 4000, !.zoomSpeed = 0,
                        !.spinAcceleration = 3]

InitFloor ==
  /\ InitProgram(FloorConfig, 2500)
  /\ InitSockets
  /\ InitScale

NextFloor ==
  \/ \E id \in CtlPointerIds, p \in FloorDownPoints : CanvasPointerDown(id, p)
  \/ \E id \in CtlPointerIds, p \in FloorPoints : PointerMove(id, p)
  \/ \E id \in CtlPointerIds : PointerUp(id)
  \/ \E id \in CtlPointerIds : PointerCancel(id)
  \/ \E dt \in FrameDeltas : AnimationFrame(dt)

SpecFloor == InitFloor /\ [][NextFloor]_vars

---------------------------------------------------------------------------
(* SpecGesture: one gesture of one pointer on the canvas while the render
   loop runs: pointer-down at GestureStart, one frame or more, a move by
   (+50, 0), any number of frames, pointer-up, and frames for ever after.
   spinAcceleration is 1, so the move turns the model by 250 units and sets
   a yaw velocity of 2000 units per second; the friction is 1 - 2^-8, which
   halves the velocity in each frame, or 1; the minimum angular speed is 0,
   below the velocity of the move (400) or above it (4000). *)

GestureStart == [x |-> 70, y |-> 140]
GestureEnd == [x |-> 120, y |-> 140]
GestureConfigs ==
  { [DefaultConfig EXCEPT !.spinAcceleration = 1, !.spinFriction = f,
                          !.idleSpinImpulse = 0, !.minAngularSpeed = m] :
      f \in {996, 1000}, m \in {0, 400, 4000} }

InitGesture ==
  /\ \E c \in GestureConfigs : InitProgram(c, 2500)
  /\ InitSockets
  /\ InitScale

\* the pointer is down at GestureStart and a frame has passed since
GesturePressed == PressedIds = {1} /\ lastX = GestureStart.x /\ sinceMove > 0
\* the pointer has moved to GestureEnd and is still down
GestureMoved == PressedIds = {1} /\ lastX = GestureEnd.x
\* the pointer is up again
GestureReleased == pressed = {} /\ lastX = GestureEnd.x

NextGesture ==
  \/ pressed = {} /\ lastX = 0 /\ CanvasPointerDown(1, GestureStart)
  \/ GesturePressed /\ PointerMove(1, GestureEnd)
  \/ GestureMoved /\ PointerUp(1)
  \/ \E dt \in FrameDeltas : AnimationFrame(dt)

SpecGesture == InitGesture /\ [][NextGesture]_vars

\* The render loop keeps calling update
FairGesture == SpecGesture /\ WF_vars(\E dt \in FrameDeltas : AnimationFrame(dt))

---------------------------------------------------------------------------
(* SpecPinch: pinch gestures at the default zoom configuration, with the
   rotation switched off (spinAcceleration = 0).  The pointers are on the
   points k * (12, 16), which are 20 |k1 - k2| pixels apart.  Pointer 1
   touches at k = 0 and stays; pointer 2 touches at k = 5 or where pointer 1
   is (distance 0) and moves; pointer 3 touches at k = 5 and stays, to make
   three pointers of two and two of three. *)
PinchPoint(k) == [x |-> 12 * k, y |-> 16 * k]
PinchDownPoints == [p \in {1, 2, 3} |-> IF p = 1 THEN {PinchPoint(0)}
                                        ELSE IF p = 2 THEN {PinchPoint(0), PinchPoint(5)}
                                        ELSE {PinchPoint(5)}]
PinchPoints == {PinchPoint(k) : k \in {0, 3, 4, 5}}
PinchPointerIds == {1, 2, 3}
PinchConfig ==
  [DefaultConfig EXCEPT !.spinAcceleration = 0, !.spinFriction = 1000,
                        !.idleSpinImpulse = 0]

InitPinch ==
  /\ InitProgram(PinchConfig, 2500)
  /\ InitSockets
  /\ InitScale

NextPinch ==
  \/ \E id \in PinchPointerIds : \E p \in PinchDownPoints[id] : CanvasPointerDown(id, p)
  \/ \E p \in PinchPoints : 2 \in PressedIds /\ PointerMove(2, p)
  \/ \E id \in PinchPointerIds : PointerUp(id)

SpecPinch == InitPinch /\ [][NextPinch]_vars

(* SpecTransforms: the wired program with one pointer that turns the
   primary object on the canvas (spinAcceleration = 1, the velocity stopped
   by the first update) and drags the loaded accessory "hat" from the tray. *)
TransformConfig ==
  [DefaultConfig EXCEPT !.spinAcceleration = 1, !.spinFriction = 1000,
                        !.idleSpinImpulse = 0]

InitTransforms ==
  /\ InitProgram(TransformConfig, 2500)
  /\ InitSockets
  /\ InitScale

NextTransforms ==
  \/ \E id \in PointerIds : TrayPointerDown("hat", id)
  \/ \E id \in PointerIds, p \in Points : CanvasPointerDown(id, p)
  \/ \E id \in PointerIds, p \in Points : PointerMove(id, p)
  \/ \E id \in PointerIds : PointerUp(id)
  \/ \E dt \in FrameDeltas : AnimationFrame(dt)

SpecTransforms == InitTransforms /\ [][NextTransforms]_vars

(* SpecReturn: drags from the tray with one pointer, the frames coming 100
   or 125 ms apart, so that a return animation of 250 ms ends after two
   frames or after three. *)
ReturnDeltas == {100, 125}

NextReturn ==
  \/ \E target \in Thumbnails, id \in PointerIds : TrayPointerDown(target, id)
  \/ \E id \in PointerIds, p \in Points : PointerMove(id, p)
  \/ \E id \in PointerIds : PointerUp(id)
  \/ \E dt \in ReturnDeltas : AnimationFrame(dt)

SpecReturn == Init /\ [][NextReturn]_vars

(* SpecCoast: update applied again and again to a coasting controller, for
   the frictions, floors and self-righting strengths of CoastConfigs and
   the velocities a release can leave behind. *)

CoastConfigs ==
  { [DefaultConfig EXCEPT !.spinFriction = 0],
    [DefaultConfig EXCEPT !.spinFriction = 300],
    [DefaultConfig EXCEPT !.spinFriction = 996],
    [DefaultConfig EXCEPT !.spinFriction = 1000],
    [DefaultConfig EXCEPT !.spinFriction = 996, !.minAngularSpeed = 400],
    [DefaultConfig EXCEPT !.spinFriction = 996, !.uprightStrength = 1,
                          !.uprightThreshold = 400] }
CoastVelocities == {-800, 0, 200, 800}

InitCoast ==
  /\ \E c \in CoastConfigs, vx \in CoastVelocities, vy \in CoastVelocities :
       InitState(c, 2500, vx, vy)
  /\ InitSockets
  /\ InitScale

NextCoast == \E dt \in FrameDeltas : AnimationFrame(dt)

SpecCoast == InitCoast /\ [][NextCoast]_vars

---------------------------------------------------------------------------
(* SpecScale: relativeScale and scaleForEntry applied to arguments drawn
   from the JavaScript values a configuration file and the loader can
   supply. *)

ScaleSizes ==
  {Num(2), Frac(1, 2), Num(0), Num(-1), Num(MaxValue), NaN, Infinity, Undefined, Str}
ScaleEntries ==
  {[present |-> FALSE, objClass |-> "undefined", size |-> Undefined]}
    \cup [present : {TRUE}, objClass : {"accessory", "base", "undefined"}, size : ScaleSizes]
ScaleBaseSizes == {Num(1), Num(2), Frac(1, 2), Num(0), NaN}
ScaleBaseRadii == {Num(500), Num(0), Num(-500), Undefined}
ScaleAccessoryRadii == {Num(250), Num(0), Undefined, Infinity}

InitScaleCall ==
  /\ InitProgram(SpecConfig, 2500)
  /\ InitSockets
  /\ scaleArgs \in [entry : ScaleEntries, baseSize : ScaleBaseSizes,
                    baseRadius : ScaleBaseRadii, accessoryRadius : ScaleAccessoryRadii]
  /\ scaleResult = NotCalled

\* a call of relativeScale (drag.js:62)
CallRelativeScale ==
  /\ lastOp = "init"
  /\ scaleResult' = relativeScale(scaleArgs.entry, scaleArgs.baseSize,
                                  scaleArgs.baseRadius, scaleArgs.accessoryRadius)
  /\ lastOp' = "relativeScale"
  /\ UNCHANGED <<progVars, sockVars, scaleArgs>>

\* a call of scaleForEntry (part_002:259)
CallScaleForEntry ==
  /\ lastOp = "init"
  /\ scaleResult' = scaleForEntry(scaleArgs.entry, scaleArgs.baseSize,
                                  scaleArgs.baseRadius, scaleArgs.accessoryRadius)
  /\ lastOp' = "scaleForEntry"
  /\ UNCHANGED <<progVars, sockVars, scaleArgs>>

NextScale == CallRelativeScale \/ CallScaleForEntry

SpecScale == InitScaleCall /\ [][NextScale]_vars

---------------------------------------------------------------------------
(* SpecSockets: models are loaded one after the other under the labels of
   ObjectIds; each load hands its model to collectSockets (part_000:60). *)

\* models loaded in one run
MaxLoads == 3

\* node names in the order traverse visits them
NodeNames ==
  { <<StrName(<<"r", "o", "o", "t">>), StrName(socketPrefix \o <<"a">>),
      StrName(socketPrefix \o <<"b">>)>>,
    <<StrName(socketPrefix \o <<"a">>), StrName(<<>>),
      StrName(<<"S", "o", "c", "k", "e", "t", "_", "a">>)>>,
    <<NoName, NumName, StrName(<<"s", "o", "c", "k">>)>>,
    <<StrName(socketPrefix \o <<"a">>), StrName(socketPrefix \o <<"a">>)>> }

\* the model of the load number n: its nodes are new objects
LoadedModel(n, names) ==
  [i \in 1..Len(names) |-> [node |-> [load |-> n, index |-> i], name |-> names[i]]]

\* part_000:43-62 once the asset is there: the call collectSockets(model, label)
CollectSockets(objectId, names) ==
  LET model == LoadedModel(loadCount + 1, names)
  IN  /\ loadCount < MaxLoads
      /\ loadCount' = loadCount + 1
      /\ socketRegistry' = collectSockets(socketRegistry, model, objectId)
      /\ lastModel' = [lastModel EXCEPT ![objectId] = <<model>>]
      /\ lastOp' = "collectSockets"
      /\ UNCHANGED <<progVars, scaleVars, loads>>

InitSocketRuns ==
  /\ InitProgram(SpecConfig, 2500)
  /\ InitSockets
  /\ InitScale

NextSockets == \E objectId \in ObjectIds, names \in NodeNames : CollectSockets(objectId, names)

SpecSockets == InitSocketRuns /\ [][NextSockets]_vars

---------------------------------------------------------------------------
(* SpecLoads: loadModel calls that run concurrently, as preloadAccessories
   starts them (part_002:244-269): each call waits for its preflight request
   and then for the loader, and what runs between two awaits runs without
   interruption.  Two calls can carry the same label. *)

LoadObjectIds == {"hat", "cap"}
LoadNodeNames ==
  { <<StrName(<<"r", "o", "o", "t">>), StrName(socketPrefix \o <<"a">>),
      StrName(socketPrefix \o <<"b">>)>>,
    <<StrName(socketPrefix \o <<"a">>)>>,
    <<NoName, StrName(<<"s", "o", "c", "k">>)>> }

\* part_000:19-36: loadModel up to `await preflightAsset(...)`
StartLoad(objectId, names) ==
  /\ loadCount < MaxLoads
  /\ loadCount' = loadCount + 1
  /\ loads' = loads \cup {[n |-> loadCount + 1, objectId |-> objectId, names |-> names,
                           phase |-> "preflight"]}
  /\ lastOp' = "startLoad"
  /\ UNCHANGED <<progVars, scaleVars, socketRegistry, lastModel>>

\* part_000:36-43 and 82-112: the preflight request settles; the call goes
\* on to `await loader.loadAsync(...)` or returns null (or throws, for a
\* primary load)
PreflightSettles(l, ok) ==
  /\ l \in loads /\ l.phase = "preflight"
  /\ loads' = IF ok THEN (loads \ {l}) \cup {[l EXCEPT !.phase = "loading"]}
                     ELSE loads \ {l}
  /\ lastOp' = IF ok THEN "preflightOk" ELSE "preflightFailed"
  /\ UNCHANGED <<progVars, scaleVars, socketRegistry, lastModel, loadCount>>

\* part_000:43-71: the loader settles; with a model the call runs on to
\* collectSockets(model, label), without one the catch block returns null
\* (or throws again)
LoaderSettles(l, ok) ==
  /\ l \in loads /\ l.phase = "loading"
  /\ loads' = loads \ {l}
  /\ IF ok
       THEN /\ socketRegistry' = collectSockets(socketRegistry, LoadedModel(l.n, l.names),
                                                l.objectId)
            /\ lastModel' = [lastModel EXCEPT ![l.objectId] = <<LoadedModel(l.n, l.names)>>]
            /\ lastOp' = "loaded"
       ELSE /\ UNCHANGED <<socketRegistry, lastModel>>
            /\ lastOp' = "loadFailed"
  /\ UNCHANGED <<progVars, scaleVars, loadCount>>

NextLoads ==
  \/ \E objectId \in LoadObjectIds, names \in LoadNodeNames : StartLoad(objectId, names)
  \/ \E l \in loads, ok \in BOOLEAN : PreflightSettles(l, ok)
  \/ \E l \in loads, ok \in BOOLEAN : LoaderSettles(l, ok)

SpecLoads == InitSocketRuns /\ [][NextLoads]_vars

----------------------------------------------------------------------------
(* The claims of the specification, C1 to C34 *)

\* C1, as the specification states it: a pointer-down on a tray thumbnail
\* while a drag session exists (following the pointer or returning) adds no
\* clone to the scene and leaves the session unchanged.
C1_SingleSession ==
  [][(active # <<>> /\ \E target \in Thumbnails, id \in PointerIds :
                          TrayPointerDown(target, id))
       => (clones' = clones /\ active' = active)]_vars

\* C1: the state the missing guard leads to, two clones in the scene
C1_TwoClones == Cardinality(DOMAIN clones) = 2 /\ active # <<>>

\* C2, as the specification states it: no event handler and no step of a
\* return animation ever raises a fault.
C2_NoFault == ~thrown

\* C3, as the specification states it: once a pointer-up or pointer-cancel
\* has put a session with the clone c into its return, eventually c is out
\* of the scene, the session is cleared and the controller is enabled.
C3_ReturnCompletes ==
  \A c \in CloneIds :
    (active # <<>> /\ active[1].returning /\ active[1].model = c)
      ~> (c \notin DOMAIN clones /\ active = <<>> /\ enabled)

\* C4, as the specification states it: while a drag session exists the
\* Interaction Controller is disabled.
C4_DisabledWhileSession == active # <<>> => ~enabled

\* the pointer id is pressed on the thumbnail of the accessory not loaded
OnUnloaded(id) == \E q \in pressed : q.id = id /\ TrayOp(q.target) = "trayDownUnloaded"

\* C5, as the specification states it: the events of a gesture that starts
\* on the thumbnail of an accessory not yet loaded (the press, the moves of
\* that pointer, its release) mutate nothing in the scene: no clone, no
\* session, no fault, and the primary object where it was.
C5_NoSceneMutation ==
  [][(\E id \in CtlPointerIds :
        \/ TrayPointerDown("cap", id)
        \/ OnUnloaded(id) /\ \E p \in CtlPoints : PointerMove(id, p)
        \/ OnUnloaded(id) /\ (PointerUp(id) \/ PointerCancel(id)))
       => (clones' = clones /\ active' = active /\ thrown' = thrown
           /\ rotation' = rotation)]_vars

\* C5: the primary object turned by a move of the pointer pressed on that thumbnail
C5_TurnedFromTray ==
  /\ lastOp = "pointerMove" /\ rotation # [x |-> 0, y |-> 0]
  /\ \E id \in CtlPointerIds : OnUnloaded(id) /\ activePointers = <<[id |-> id, x |-> 70, y |-> 140]>>

\* zoomDistance lies in [minZoom, maxZoom]
ZoomInRange == cfg.minZoom <= zoomDistance /\ zoomDistance <= cfg.maxZoom

\* C6 as the specification states it: after any wheel event, and after any
\* pointer-move with two pointers down, zoomDistance lies in
\* [minZoom, maxZoom], whatever the delta and whatever zoomDistance was
\* before.
C6_ZoomClampedAlways ==
  [][(\/ lastOp' = "wheel"
      \/ lastOp' = "pointerMove" /\ Cardinality(pressed) = 2)
       => ZoomInRange']_vars

\* C6, amended: after any wheel event, and after any pointer-move with two
\* tracked pointers, that reaches the Interaction Controller while it is
\* enabled, zoomDistance lies in [minZoom, maxZoom], whatever the delta and
\* whatever zoomDistance was before.
C6_ZoomClamped ==
  [][(enabled /\
       \/ lastOp' = "wheel"
       \/ lastOp' = "pointerMove" /\ Len(activePointers) = 2 /\ Len(activePointers') = 2)
       => ZoomInRange']_vars

\* C6: a pinch that spread the two pointers from one point to 100 apart has
\* brought zoomDistance to minZoom on the enabled controller
C6_PinchClamped ==
  /\ enabled /\ lastOp = "pointerMove" /\ Len(activePointers) = 2
  /\ pinchStartDistance = 100 /\ zoomDistance = cfg.minZoom

\* What C7 says of one update while coasting: neither component of the
\* angular velocity grows in magnitude, friction 0 keeps both and friction 1
\* zeroes both.
CoastStepDecays ==
  /\ Abs(velocityX') <= Abs(velocityX)
  /\ Abs(velocityY') <= Abs(velocityY)
  /\ cfg.spinFriction = 0 => (velocityX' = velocityX /\ velocityY' = velocityY)
  /\ cfg.spinFriction = 1000 => (velocityX' = 0 /\ velocityY' = 0)

\* C7, as the specification states it: for every friction in [0,1], every
\* update with a positive delta while coasting leaves the magnitude of the
\* angular velocity no larger; friction 0 preserves it, friction 1 zeroes it.
C7_NonIncreasing ==
  [][(coasting /\ \E dt \in FrameDeltas : AnimationFrame(dt)) => CoastStepDecays]_vars

\* C7, amended: the same, for configurations with no minimum angular speed
\* and no self-righting (minAngularSpeed = 0, uprightStrength = 0).
C7_NonIncreasingNoFloor ==
  [][(coasting /\ cfg.minAngularSpeed = 0 /\ cfg.uprightStrength = 0
        /\ \E dt \in FrameDeltas : AnimationFrame(dt)) => CoastStepDecays]_vars

\* C7: one update has halved both components under friction 1 - 2^-8
C7_Halved ==
  /\ lastOp = "frame" /\ coasting /\ cfg.spinFriction = 996
  /\ cfg.minAngularSpeed = 0 /\ cfg.uprightStrength = 0
  /\ velocityX = 400 /\ velocityY = -400

\* C8: a pointer-move while dragging with one pointer down turns the
\* primary object by yaw = dx * spinAcceleration * 0.002 * yAxisMultiplier
\* and pitch = dy * spinAcceleration * 0.002 * xAxisMultiplier, (dx, dy)
\* being the displacement of that pointer from its previous sample to the
\* new one, whatever the time since that sample.  (0.002 rad is 5 rotation
\* units; the multipliers are in tenths.)
C8_MoveRotation ==
  [][(lastOp' = "pointerMove" /\ enabled /\ isDragging
        /\ Len(activePointers) = 1 /\ Len(activePointers') = 1)
       => /\ 10 * (rotation'.y - rotation.y) =
               (activePointers'[1].x - activePointers[1].x)
                 * cfg.spinAcceleration * 5 * cfg.yAxisMultiplier
          /\ 10 * (rotation'.x - rotation.x) =
               (activePointers'[1].y - activePointers[1].y)
                 * cfg.spinAcceleration * 5 * cfg.xAxisMultiplier]_vars

\* C8: a move by (60, 80) has turned the object from rest, no time after
\* the sample before it
C8_Turned ==
  /\ lastOp = "pointerMove" /\ isDragging /\ Len(activePointers) = 1
  /\ rotation = [x |-> 480, y |-> 600] /\ velocityX = 600000

\* C9: relativeScale (and the entry point's scaleForEntry) return undefined
\* for an entry that is missing or not an accessory, and for an accessory
\* whose size is not a finite number, whatever the other arguments.
C9_UndefinedUnlessSizedAccessory ==
  lastOp \in {"relativeScale", "scaleForEntry"} =>
    ((~scaleArgs.entry.present \/ scaleArgs.entry.objClass # "accessory"
        \/ scaleArgs.entry.size.k # "num")
       => scaleResult = Undefined)

\* C9: relativeScale has returned undefined for an accessory of size NaN
\* that has both radii
C9_NaNSize ==
  /\ lastOp = "relativeScale" /\ scaleArgs.entry.present
  /\ scaleArgs.entry.objClass = "accessory" /\ scaleArgs.entry.size = NaN
  /\ scaleArgs.baseRadius = Num(500) /\ scaleArgs.accessoryRadius = Num(250)
  /\ scaleResult = Undefined

\* the registry's records of objectId o, in order
RecordsOf(o) == SelectSeq(socketRegistry, LAMBDA r : r.objectId = o)
\* the model of the latest collectSockets call for o (no node when none)
LatestModel(o) == IF lastModel[o] = <<>> THEN <<>> ELSE lastModel[o][1]
\* the name is a string that begins with socket_
NamedSocket(name) ==
  /\ name.k = "string" /\ Len(name.chars) >= 7
  /\ SubSeq(name.chars, 1, 7) = <<"s", "o", "c", "k", "e", "t", "_">>

\* C10: after any sequence of collectSockets calls, the registry's records
\* of each objectId are exactly the sockets of the model of the latest call
\* for that objectId: each record is a socket node of that model under its
\* own name, each socket node of that model has exactly one record, and no
\* record is left from an earlier call.
C10_LatestOnly ==
  \A o \in ObjectIds :
    LET recs == RecordsOf(o)
        model == LatestModel(o)
    IN  /\ \A k \in 1..Len(recs) :
             \E i \in 1..Len(model) :
               /\ model[i].node = recs[k].threeJsNode
               /\ model[i].name = StrName(recs[k].socketId)
               /\ NamedSocket(model[i].name)
        /\ \A i \in 1..Len(model) :
             NamedSocket(model[i].name) =>
               Cardinality({k \in 1..Len(recs) : recs[k].threeJsNode = model[i].node}) = 1

\* C10: two calls for "hat", the second with a model of two sockets, have
\* left the two records of the second
C10_SecondSetOnly ==
  /\ loadCount = 2 /\ lastModel["base"] = <<>> /\ lastModel["cap"] = <<>>
  /\ Len(socketRegistry) = 2 /\ socketRegistry[1].threeJsNode.load = 2

\* C11: disable() ends a drag in progress and clears the tracked pointers
\* and changes nothing else: after it isDragging is false and activePointers
\* is empty, and the angular velocity, the coasting flag, zoomDistance and
\* the rotation of the model are as before.
C11_DisableEffect ==
  [][lastOp' = "disable" =>
       /\ ~isDragging' /\ activePointers' = <<>>
       /\ velocityX' = velocityX /\ velocityY' = velocityY
       /\ coasting' = coasting /\ zoomDistance' = zoomDistance
       /\ rotation' = rotation]_vars

\* C11: disable() has ended a drag that had set a velocity and turned the model
C11_DragEnded ==
  /\ lastOp = "disable" /\ ~enabled /\ ~isDragging /\ activePointers = <<>>
  /\ velocityX = 4800 /\ rotation.y = 600 /\ pressed # {}

\* C12: enable() sets enabled and changes nothing else: the coasting flag,
\* isDragging, the angular velocity, activePointers, zoomDistance and the
\* rotation of the model are as before.
C12_EnableEffect ==
  [][lastOp' = "enable" =>
       /\ enabled'
       /\ coasting' = coasting /\ isDragging' = isDragging
       /\ velocityX' = velocityX /\ velocityY' = velocityY
       /\ activePointers' = activePointers /\ zoomDistance' = zoomDistance
       /\ rotation' = rotation]_vars

\* C12: enable() has resumed a controller that was disabled during a drag,
\* with the velocity of the drag and without its pointers
C12_Resumed ==
  /\ lastOp = "enable" /\ enabled /\ ~coasting /\ ~isDragging
  /\ velocityX = 4800 /\ activePointers = <<>> /\ pressed # {}

\* the velocity v after the damping of one update of 125 ms
DampedOnce(v) == Damped(v, 1000 - clamp(cfg.spinFriction, 0, 1000), 125)

\* C13: the minimum angular speed is not enforced while dragging: in every
\* update() made while isDragging is true, a velocity component that the
\* damping leaves below minAngularSpeed is not raised to it, whatever
\* events led to the dragging state.
C13_NoFloorWhileDragging ==
  [][(isDragging /\ lastOp' = "frame") =>
       /\ Abs(DampedOnce(velocityX)) < cfg.minAngularSpeed
            => Abs(velocityX') < cfg.minAngularSpeed
       /\ Abs(DampedOnce(velocityY)) < cfg.minAngularSpeed
            => Abs(velocityY') < cfg.minAngularSpeed]_vars

\* C13: an update during a drag resumed from two pointers has raised the
\* yaw velocity to the floor
C13_RaisedWhileDragging ==
  /\ lastOp = "frame" /\ isDragging /\ coasting
  /\ Len(activePointers) = 1 /\ velocityX = cfg.minAngularSpeed

\* C14: while coasting with minAngularSpeed above zero the object never
\* stops: after every update() in a coasting state the yaw speed is at
\* least minAngularSpeed, whatever the initial velocity and the friction.
C14_NeverStops ==
  [][(coasting /\ cfg.minAngularSpeed > 0 /\ lastOp' = "frame")
       => Abs(velocityX') >= cfg.minAngularSpeed]_vars

\* C14: an update of a coasting controller with a floor has left the yaw at rest
C14_AtRest ==
  /\ lastOp = "frame" /\ coasting /\ cfg.minAngularSpeed > 0 /\ velocityX = 0

\* C15: the controller is in exactly one of idle, dragging and coasting:
\* isDragging and coasting are never both true.
C15_DraggingXorCoasting == ~(isDragging /\ coasting)

\* C15: a pointer-up from two pointers to one has left the controller
\* dragging and coasting at once
C15_BothAfterUp ==
  /\ lastOp = "pointerUp" /\ isDragging /\ coasting /\ Len(activePointers) = 1

PinchDist(m) == distance(m[1], m[2])

\* the pointer-move listener called for pointer 2 at each point of ks in turn
RECURSIVE PinchMoves(_, _)
PinchMoves(s, ks) ==
  IF ks = <<>> THEN s
  ELSE PinchMoves(ctlOnPointerMove(s, [target |-> "none", id |-> 2,
                                       x |-> PinchPoint(Head(ks)).x,
                                       y |-> PinchPoint(Head(ks)).y]),
                  Tail(ks))

\* the zoom change of a pinch from distance `from` to distance `to`
PinchZoomDelta(c, from, to) == (-(to - from)) * (c.zoomSpeed * c.pinchZoomMultiplier)

\* C17, second half: with two pointers 100 pixels apart, pinching pointer 2
\* in from k = 5 to k = 3, 60 pixels from the other pointer, raises zoomDistance by 160 units (0.32) when maxZoom is
\* not hit, in one move or in two
C17_PinchTotal ==
  (/\ enabled /\ Len(activePointers) = 2
   /\ \E i \in 1..2 : activePointers[i] = [id |-> 2, x |-> PinchPoint(5).x,
                                                     y |-> PinchPoint(5).y]
   /\ PinchDist(activePointers) = 100 /\ pinchStartDistance = 100
   /\ zoomDistance + 160 <= cfg.maxZoom)
  => \A ks \in {<<3>>, <<4, 3>>, <<4, 4, 3>>} :
       PinchMoves(Cur, ks).zoomDistance = zoomDistance + 160

\* C17 as the specification states it: during a two-pointer gesture each
\* pointer-move changes zoomDistance by -(the change of the distance between
\* the pointers since the previous sample) * zoomSpeed * pinchZoomMultiplier,
\* clamped; and a pinch from 100 to 60 adds 0.32 however it is split.
C17_DeltaSincePreviousSample ==
  /\ [][(enabled /\ Len(activePointers) = 2 /\ lastOp' = "pointerMove")
          => zoomDistance' =
               clamp(zoomDistance + PinchZoomDelta(cfg, PinchDist(activePointers),
                                                   PinchDist(activePointers')),
                     cfg.minZoom, cfg.maxZoom)]_vars
  /\ []C17_PinchTotal

\* C17, amended: each pointer-move of an active pointer changes zoomDistance
\* by -(the distance between the pointers - pinchStartDistance) * zoomSpeed *
\* pinchZoomMultiplier, clamped, and records the distance as
\* pinchStartDistance; when pinchStartDistance is 0 (the second pointer
\* touched where the first one was, or a pointer was lifted from three) the
\* move changes nothing and only records the distance; and a pinch from 100
\* to 60 adds 0.32 however it is split.
C17_DeltaSinceRecorded ==
  /\ [][(enabled /\ Len(activePointers) = 2 /\ lastOp' = "pointerMove")
          => /\ zoomDistance' =
                  clamp(zoomDistance
                          + (IF pinchStartDistance = 0 THEN 0
                             ELSE PinchZoomDelta(cfg, pinchStartDistance,
                                                 PinchDist(activePointers'))),
                        cfg.minZoom, cfg.maxZoom)
             /\ pinchStartDistance' = PinchDist(activePointers')]_vars
  /\ []C17_PinchTotal

\* C17: a pinch from 100 pixels to 60 has raised the zoom distance from 5.0
\* to 5.32
C17_PinchedIn ==
  /\ lastOp = "pointerMove" /\ Len(activePointers) = 2
  /\ PinchDist(activePointers) = 60 /\ pinchStartDistance = 60
  /\ zoomDistance = 2660 /\ cameraZ = 2660

\* C18: a pointer-cancel is treated as a pointer-up: from every state, for
\* every pointer, the listeners of pointercancel leave the Interaction
\* Controller and the drag session in the state the listeners of pointerup
\* would.
C18_CancelAsUp ==
  \A id \in PointerIds \cup CtlPointerIds :
    OnPointerCancelEvent(Cur, id) = OnPointerUpEvent(Cur, id)

\* C18 while onPointerUp is still attached for pointerup (dispose() has not
\* been called): the two events have the same listeners
C18_CancelAsUpWhileAttached == Listens(Cur, "pointerup") => C18_CancelAsUp

\* C18: after dispose() a pointer-cancel has ended a pinch, and a tracked
\* pointer is still down whose pointer-up would change nothing and whose
\* pointer-cancel would end the drag
C18_CancelAfterDispose ==
  /\ lastOp = "pointerCancel" /\ ~Listens(Cur, "pointerup")
  /\ Len(activePointers) = 1 /\ isDragging
  /\ PressedIds = {activePointers[1].id}
  /\ OnPointerUpEvent(Cur, activePointers[1].id) = Cur
  /\ ~OnPointerCancelEvent(Cur, activePointers[1].id).isDragging

\* the events the listeners can be called with
TransformEvents ==
  [target : {"none", "hat"}, id : PointerIds, x : {p.x : p \in Points},
   y : {p.y : p \in Points}]

\* C19: the primary object's transform is written only by the Interaction
\* Controller and a clone's transform only by the drag controller: in every
\* reachable state, no drag handler and no step of a return animation
\* changes the primary object's rotation (nothing in the program writes its
\* position or scale), and no interaction handler and no update() changes
\* any clone.
C19_SeparateTransforms ==
  /\ \A ev \in TransformEvents :
       /\ dragOnPointerDown(Cur, ev, NewClone).rotation = rotation
       /\ dragOnPointerMove(Cur, ev).rotation = rotation
       /\ dragOnPointerUp(Cur, ev).rotation = rotation
       /\ ctlOnPointerDown(Cur, ev).clones = clones
       /\ ctlOnPointerMove(Cur, ev).clones = clones
       /\ ctlOnPointerUp(Cur, ev).clones = clones
  /\ \A i \in 1..Len(rafQueue) : step(Cur, rafQueue[i]).s.rotation = rotation
  /\ \A deltaY \in WheelDeltas, pinchLike \in BOOLEAN :
       ctlOnWheel(Cur, [deltaY |-> deltaY, pinchLike |-> pinchLike]).clones = clones
  /\ \A dt \in FrameDeltas : update(Cur, dt).clones = clones
  /\ ctlDisable(Cur).clones = clones
  /\ ctlEnable(Cur).clones = clones

\* C19: the primary object has been turned on the canvas and a clone is
\* being dragged away from where it was put
C19_TurnedAndDragged ==
  /\ rotation.x # 0 /\ lastOp = "pointerMove"
  /\ active # <<>> /\ ~active[1].returning
  /\ clones[active[1].model].position.x > 0

\* a finite number strictly greater than zero
FinitePositive(v) == v.k = "num" /\ v.n > 0 /\ v.d > 0

\* size / baseSize for the arguments of the call, the base size defaulting
\* to 1 (drag.js:179-182)
SizeOverBase ==
  FracDiv(scaleArgs.entry.size,
          IF IsFinite(scaleArgs.baseSize) /\ IsPositive(scaleArgs.baseSize)
            THEN scaleArgs.baseSize ELSE Num(1))

\* C20: for an accessory with a finite declared size, the geometry ratio
\* defaults to 1 whenever either radius is not finite or not positive, so
\* that relativeScale (and the entry point's scaleForEntry) return size /
\* baseSize when that is positive.
C20_RatioDefaultsToOne ==
  (/\ lastOp \in {"relativeScale", "scaleForEntry"}
   /\ scaleArgs.entry.present /\ scaleArgs.entry.objClass = "accessory"
   /\ IsFinite(scaleArgs.entry.size) /\ FinitePositive(SizeOverBase)
   /\ \/ ~(IsFinite(scaleArgs.baseRadius) /\ IsPositive(scaleArgs.baseRadius))
      \/ ~(IsFinite(scaleArgs.accessoryRadius) /\ IsPositive(scaleArgs.accessoryRadius)))
  => scaleResult = SizeOverBase

\* C20: relativeScale has returned undefined for an accessory of size 2
\* over a base of size 1 whose radius is 0, the accessory's radius being
\* 250
C20_ZeroBaseRadius ==
  /\ lastOp = "relativeScale" /\ scaleArgs.entry.present
  /\ scaleArgs.entry.objClass = "accessory" /\ scaleArgs.entry.size = Num(2)
  /\ scaleArgs.baseSize = Num(1)
  /\ scaleArgs.baseRadius = Num(0) /\ scaleArgs.accessoryRadius = Num(250)
  /\ scaleResult = Undefined

\* C20 where the code applies the default: the accessory's radius is not
\* finite or not positive, or the base's radius is not finite
C20_RatioDefaultsToOneAsCoded ==
  (/\ lastOp \in {"relativeScale", "scaleForEntry"}
   /\ scaleArgs.entry.present /\ scaleArgs.entry.objClass = "accessory"
   /\ IsFinite(scaleArgs.entry.size) /\ FinitePositive(SizeOverBase)
   /\ \/ ~IsFinite(scaleArgs.baseRadius)
      \/ ~(IsFinite(scaleArgs.accessoryRadius) /\ IsPositive(scaleArgs.accessoryRadius)))
  => scaleResult = SizeOverBase

\* C21: for all inputs relativeScale (and the entry point's scaleForEntry)
\* return undefined or a finite number strictly greater than zero: never
\* zero, a negative number, NaN or an infinity.
C21_UndefinedOrFinitePositive ==
  lastOp \in {"relativeScale", "scaleForEntry"} =>
    (scaleResult = Undefined \/ FinitePositive(scaleResult))

\* C21: relativeScale has returned undefined where the product of the two
\* ratios is NaN: the size over the base size is beyond the largest number
\* and the base radius is 0
C21_NaNProduct ==
  /\ lastOp = "relativeScale" /\ scaleResult = Undefined
  /\ scaleArgs.entry.present /\ scaleArgs.entry.objClass = "accessory"
  /\ relativeScaleUntested(scaleArgs.entry, scaleArgs.baseSize, scaleArgs.baseRadius,
                           scaleArgs.accessoryRadius) = NaN

\* C22: on pointer-up while enabled, when max(|velocityX|, |velocityY|) is
\* below the floor max(minAngularSpeed, 0) both components become zero and
\* coasting false, and the following update() calls keep them zero; otherwise
\* the velocity is kept and coasting becomes true.
C22_StoppedBelowFloor ==
  /\ [][(enabled /\ lastOp' = "pointerUp") =>
          IF Max(Abs(velocityX), Abs(velocityY)) < Max(cfg.minAngularSpeed, 0)
            THEN velocityX' = 0 /\ velocityY' = 0 /\ ~coasting'
            ELSE velocityX' = velocityX /\ velocityY' = velocityY /\ coasting']_vars
  /\ [][(~coasting /\ velocityX = 0 /\ velocityY = 0 /\ lastOp' = "frame")
          => (velocityX' = 0 /\ velocityY' = 0 /\ ~coasting'
              /\ rotation' = rotation)]_vars

\* C22: a gesture released below the floor has left the turned model at
\* rest, and an update has kept it there
C22_StoppedAndStill ==
  /\ lastOp = "frame" /\ enabled /\ ~coasting /\ ~isDragging /\ pressed = {}
  /\ cfg.minAngularSpeed > 0 /\ velocityX = 0 /\ velocityY = 0
  /\ rotation.y # 0

PointerOrWheelOps ==
  {"pointerDown", "trayDownLoaded", "trayDownUnloaded", "trayDownUnknown",
   "pointerMove", "pointerUp", "pointerCancel", "wheel"}

\* the InteractionState, the model rotation and the camera position
InteractionView ==
  <<isDragging, coasting, velocityX, velocityY, zoomDistance, activePointers,
    pinchStartDistance, lastX, lastY, rotation, cameraZ>>

\* C24: while the Interaction Controller is disabled, every pointer-down,
\* pointer-move, pointer-up, pointer-cancel and wheel event leaves the
\* InteractionState, the model rotation and the camera position unchanged,
\* and update() goes on integrating the velocity.
C24_DisabledEventsChangeNothing ==
  /\ [][(~enabled /\ lastOp' \in PointerOrWheelOps)
          => InteractionView' = InteractionView]_vars
  /\ [][(~enabled /\ lastOp' = "frame")
          => rotation' = [x |-> rotation.x + Trunc(velocityY * 125, 1000),
                          y |-> rotation.y + Trunc(velocityX * 125, 1000)]]_vars

\* C24 for the events that reach the controller while it stays disabled
C24_DisabledListenersChangeNothing ==
  /\ [][(~enabled /\ ~enabled' /\ lastOp' \in PointerOrWheelOps)
          => InteractionView' = InteractionView]_vars
  /\ [][(~enabled /\ lastOp' = "frame")
          => rotation' = [x |-> rotation.x + Trunc(velocityY * 125, 1000),
                          y |-> rotation.y + Trunc(velocityX * 125, 1000)]]_vars

\* C24: a pointer-down that found the controller disabled, a drag session
\* being open, has left it enabled and tracking the pointer
C24_TrackedFromDisabled ==
  /\ lastOp = "trayDownUnloaded" /\ active # <<>> /\ enabled
  /\ isDragging /\ Len(activePointers) = 1

\* the animation anim of the queue is pending in the queue q with the age e
Pending(q, anim, e) ==
  \E j \in 1..Len(q) : q[j] = [anim EXCEPT !.elapsed = e]

\* the frame that comes dt after the last one reschedules every return
\* animation younger than 250 ms and ends every other one: its step puts
\* the clone on the target and the completion runs
FrameStepsReturns(dt) ==
  \A i \in 1..Len(rafQueue) :
    LET anim == rafQueue[i]
        e    == Min(anim.elapsed + dt, duration)
    IN  IF anim.elapsed + dt < duration
          THEN /\ Pending(rafQueue', anim, e)
               /\ active' # <<>> /\ thrown' = thrown
          ELSE /\ ~Pending(rafQueue', anim, e)
               /\ lerpVectors(anim.from, anim.target, e) = anim.target
               /\ active' = <<>> /\ enabled' /\ thrown' = thrown

\* C25: the return animation reschedules itself every frame and ends at the
\* first frame that is at least 250 ms after its start, and at no earlier
\* one; at that frame the clone is on the target point of its thumbnail and
\* the completion step runs.
C25_EndsAtFirstFrameAfterDuration ==
  [][lastOp' = "frame" =>
       \E dt \in ReturnDeltas :
         /\ sinceMove' = Min(sinceMove + dt, MaxGapSteps * 125)
         /\ FrameStepsReturns(dt)]_vars

\* C25 for a return animation that is the only one pending
C25_EndsAtFirstFrameWhenAlone ==
  [][(lastOp' = "frame" /\ Len(rafQueue) = 1 /\ active # <<>>) =>
       \E dt \in ReturnDeltas :
         /\ sinceMove' = Min(sinceMove + dt, MaxGapSteps * 125)
         /\ FrameStepsReturns(dt)]_vars

\* C25: the step of a second return animation has found the session cleared
\* by the completion of the first and has ended in a fault, its clone left
\* in the scene
C25_EndedEarlyByFault ==
  /\ lastOp = "frame" /\ thrown /\ active = <<>> /\ rafQueue = <<>>
  /\ clones # <<>>

\* the records collectSockets makes of a model
SocketsOf(model, objectId) == collectSockets(<<>>, model, objectId)

\* C26: under any interleaving of concurrent loads, two loads of the same
\* objectId included, the registry holds for each objectId the complete
\* record set of one finished load, or no records: never a mix of two
\* loads, a part of a set, or a record twice; and a load that fails or that
\* the preflight skips adds and removes no record.
C26_WholeSetOfOneLoad ==
  /\ [](\A o \in ObjectIds :
          \/ RecordsOf(o) = <<>>
          \/ lastModel[o] # <<>> /\ RecordsOf(o) = SocketsOf(LatestModel(o), o))
  /\ [](\A i, j \in 1..Len(socketRegistry) :
          socketRegistry[i].threeJsNode = socketRegistry[j].threeJsNode => i = j)
  /\ [][lastOp' \in {"startLoad", "preflightOk", "preflightFailed", "loadFailed"}
          => socketRegistry' = socketRegistry]_vars

\* C26: two loads of "hat" are in flight together and the one started last
\* has finished first: the registry holds its one socket while the load
\* started first, which brings two sockets, still waits for its loader
C26_LaterLoadFinishedFirst ==
  /\ lastOp = "loaded" /\ loadCount = 2
  /\ \E l \in loads : l.n = 1 /\ l.objectId = "hat" /\ l.phase = "loading"
                        /\ Len(l.names) = 3
  /\ Len(socketRegistry) = 1
  /\ socketRegistry[1].objectId = "hat" /\ socketRegistry[1].threeJsNode.load = 2

\* the qualifying nodes among the first i nodes of a model
SocketsUpTo(model, i) == {j \in 1..i : NamedSocket(model[j].name)}

\* C27: a call of collectSockets for objectId o registers a node of the model
\* if and only if its name is a non-empty string that starts with 'socket_';
\* each such node gets one record, the records stand in traversal order
\* after all records of the other objects, and the records of the other
\* objects stay as they were, in the same order.
C27_QualifyingNodesAppended ==
  [][\A o \in ObjectIds :
       lastOp' = "collectSockets" /\ lastModel'[o] # lastModel[o] =>
         LET model == lastModel'[o][1]
             others == SelectSeq(socketRegistry, LAMBDA r : r.objectId # o)
             n == Len(others)
         IN  /\ Len(socketRegistry') = n + Cardinality(SocketsUpTo(model, Len(model)))
             /\ SubSeq(socketRegistry', 1, n) = others
             /\ \A i \in 1..Len(model) :
                   IF NamedSocket(model[i].name) /\ model[i].name.chars # <<>>
                     THEN socketRegistry'[n + Cardinality(SocketsUpTo(model, i))]
                            = [objectId |-> o, socketId |-> model[i].name.chars,
                               threeJsNode |-> model[i].node]
                     ELSE \A k \in 1..Len(socketRegistry') :
                            socketRegistry'[k].threeJsNode # model[i].node]_vars

\* C27: the third load is of "hat" and has a root and two sockets; the two
\* sockets are recorded in that order after the record of "cap", the root is
\* not recorded
C27_AppendedAfterOthers ==
  /\ lastOp = "collectSockets" /\ loadCount = 3
  /\ Len(socketRegistry) = 3
  /\ socketRegistry[1].objectId = "cap" /\ socketRegistry[1].threeJsNode.load = 2
  /\ \A k \in 2..3 : /\ socketRegistry[k].objectId = "hat"
                      /\ socketRegistry[k].threeJsNode = [load |-> 3, index |-> k]

\* C28: in every reachable state isDragging is true exactly when one
\* pointer is tracked in activePointers; with none, two or more it is false.
C28_DraggingIffOneTracked == isDragging <=> Len(activePointers) = 1

\* C28: two pointers are down and only the second is tracked: disable() has
\* cleared activePointers since the first went down, or the first went down
\* while the controller was disabled; isDragging is true
C28_OneTrackedOfTwoDown ==
  /\ lastOp = "pointerDown" /\ PressedIds = {1, 2} /\ "pointerdown" \in listeners
  /\ Len(activePointers) = 1 /\ activePointers[1].id = 2 /\ isDragging

\* C29, as the specification states it: in every reachable state the scene
\* holds exactly one drag clone, the session's, when a drag session exists,
\* and no drag clone when none exists.
C29_NoCloneLeaks ==
  IF active = <<>> THEN DOMAIN clones = {} ELSE DOMAIN clones = {active[1].model}

\* C29 for every step but the press of a loaded thumbnail during a session:
\* such a step keeps the scene and the session in agreement
C29_LeaksOnlyBySecondSession ==
  [][(C29_NoCloneLeaks /\ ~(active # <<>> /\ lastOp' = "trayDownLoaded"))
       => C29_NoCloneLeaks']_vars

\* C29: a clone is in the scene for good: no session exists, no return
\* animation is pending and no fault was raised
C29_CloneLeftBehind ==
  active = <<>> /\ DOMAIN clones # {} /\ rafQueue = <<>> /\ ~thrown

ReleaseOps == {"pointerUp", "pointerCancel"}

\* C30, as the specification states it: a pointer-up or pointer-cancel that
\* arrives while the session is already returning starts no further
\* animation, so that a session has at most one return animation and one
\* completion.
C30_NoReturnWhileReturning ==
  [][(active # <<>> /\ active[1].returning /\ lastOp' \in ReleaseOps)
       => rafQueue' = rafQueue]_vars

\* C30 for the release of a session that is not yet returning: it marks the
\* session as returning and starts one animation
C30_FirstReleaseStartsOneReturn ==
  [][(active # <<>> /\ ~active[1].returning /\ lastOp' \in ReleaseOps)
       => /\ active' # <<>> /\ active'[1].returning
          /\ Len(rafQueue') = Len(rafQueue) + 1]_vars

\* C30: one session, the only one there has been (its clone is alone in the
\* scene), with two return animations pending
C30_TwoReturnsOfOneSession ==
  /\ active # <<>> /\ active[1].returning /\ DOMAIN clones = {active[1].model}
  /\ Len(rafQueue) = 2 /\ ~thrown

\* dispose() has been called
Disposed == "pointerdown" \notin listeners

\* C31, as the specification states it: after dispose() no pointer-down,
\* pointer-move, pointer-up, pointer-cancel or wheel event changes the
\* controller's state, the model rotation or the camera.
C31_DisposedEventsChangeNothing ==
  [][(Disposed /\ lastOp' \in PointerOrWheelOps)
       => (InteractionView' = InteractionView /\ enabled' = enabled)]_vars

\* C31 for every event but the pointer-cancel: its listener is gone (no
\* wheel listener is left either: a wheel event would change nothing)
C31_DisposedButCancel ==
  [][(Disposed /\ lastOp' \in PointerOrWheelOps \ {"pointerCancel"})
       => /\ InteractionView' = InteractionView /\ enabled' = enabled
          /\ ~Listens(Cur, "wheel")]_vars

\* C31: after dispose() a pointer-cancel has run onPointerUp, the one
\* listener dispose() leaves attached: nothing is tracked any more and the
\* controller coasts
C31_CancelHeardAfterDispose ==
  /\ lastOp = "pointerCancel" /\ Disposed /\ Listens(Cur, "pointercancel")
  /\ activePointers = <<>> /\ ~isDragging /\ coasting /\ PressedIds = {}

\* C32: whenever no drag session exists the Interaction Controller is
\* enabled, whatever tray pointer-downs (of loaded or unloaded thumbnails),
\* pointer-ups, cancels and animation frames came before.
C32_EnabledWithoutSession == active = <<>> => enabled

\* C32: the press of a thumbnail whose model is not loaded has disabled the
\* controller and given up: no session exists and the controller is enabled
C32_EnabledAfterAbort == lastOp = "trayDownUnloaded" /\ active = <<>> /\ enabled

\* C33: while a drag session is returning, pointer-move events do not change
\* the clone's position: from the pointer-up until the session is cleared
\* only the steps of return animations move its clone, and the returning
\* flag of the session, once true, stays true.  (A session is known by its
\* clone.)
C33_ReturningCloneMovedByStepsOnly ==
  [][(active # <<>> /\ active[1].returning) =>
       /\ lastOp' # "frame" =>
            /\ active[1].model \in DOMAIN clones'
            /\ clones'[active[1].model].position = clones[active[1].model].position
       /\ (active' # <<>> /\ active'[1].model = active[1].model) => active'[1].returning]_vars

\* C33: a pointer-move has arrived in the middle of a return that has some
\* way to go: the clone is where the last step of the animation put it
C33_MovedDuringReturn ==
  /\ lastOp = "pointerMove" /\ active # <<>> /\ active[1].returning
  /\ Len(rafQueue) = 1 /\ rafQueue[1].elapsed > 0
  /\ rafQueue[1].from # rafQueue[1].target
  /\ clones[active[1].model].position
       = lerpVectors(rafQueue[1].from, rafQueue[1].target, rafQueue[1].elapsed)

\* the state after the Interaction Controller's listener of pointermove
\* has run for pointer id at p
AfterCtlMove(id, p) ==
  IF Listens(Cur, "pointermove")
    THEN ctlOnPointerMove(Cur, [target |-> "none", id |-> id, x |-> p.x, y |-> p.y])
    ELSE Cur

\* C34: in every reachable state a pointer-move of a pointer that is not
\* tracked in activePointers changes nothing: the model rotation, the
\* angular velocity, zoomDistance, lastMoveTime, the last sampled position
\* and the rest of the controller's state are as before.
C34_UntrackedMoveChangesNothing ==
  \A id \in PinchPointerIds, p \in CtlPoints :
    ~MapHas(activePointers, id) => AfterCtlMove(id, p) = Cur

\* C34: the controller is enabled, listening and dragging under pointer 2;
\* pointer 1 is down, but disable() has dropped it; a pointer-move has just
\* been handled and lastMoveTime is still older than it: the move was of
\* pointer 1
C34_MoveOfDroppedPointer ==
  /\ lastOp = "pointerMove" /\ enabled /\ Listens(Cur, "pointermove")
  /\ PressedIds = {1, 2} /\ Len(activePointers) = 1 /\ activePointers[1].id = 2
  /\ isDragging /\ sinceMove > 0

=============================================================================
